---- MODULE Spec2Model ----
(***************************************************************************)
(* A model of the turn pipeline of rpg-tavern (backend/pipeline/core.py),  *)
(* of the character state engine (backend/characters.py) and of the        *)
(* extractor appliers (backend/pipeline/extractors.py).                    *)
(*                                                                         *)
(* Three specifications share the variables:                               *)
(*   TickSpec     tick_character applied to characters drawn from a        *)
(*                bounded set of state lists;                              *)
(*   ExtractSpec  the three apply_*_extractor functions applied to model   *)
(*                output drawn from a bounded set of JSON payloads;        *)
(*   Spec         one turn of run_pipeline, one action per model call.     *)
(***************************************************************************)
EXTENDS Integers, Sequences, FiniteSets, TLC

(***************************************************************************)
(* Bounds of the model.                                                    *)
(***************************************************************************)
\* longest core list a TickSpec character starts with
MaxCore == 1
\* longest temporal list a TickSpec character starts with
MaxTemporal == 2
\* most items in the state_changes or lorebook_entries of a model's answer
MaxChanges == 2

(***************************************************************************)
(* Small helpers.                                                          *)
(***************************************************************************)
Range(s) == {s[i] : i \in DOMAIN s}

Min(a, b) == IF a < b THEN a ELSE b

\* all sequences over S of length 0..n
SeqsUpTo(S, n) == UNION {[1..k -> S] : k \in 0..n}

\* str.lower() on the mixed-case strings the model uses; every other string
\* of the model is lower-case already
Lower(s) ==
    CASE s = "Angry" -> "angry"
      [] s = "ANGRY" -> "angry"
      [] s = "Loyal" -> "loyal"
      [] s = "Gareth" -> "gareth"
      [] s = "GARETH" -> "gareth"
      [] s = "Gar" -> "gar"
      [] s = "Elena" -> "elena"
      [] s = "ELENA" -> "elena"
      [] s = "Aldric" -> "aldric"
      [] s = "Mira" -> "mira"
      [] s = "Cave" -> "cave"
      [] s = "CAVE" -> "cave"
      [] s = "Sword" -> "sword"
      [] OTHER -> s

(***************************************************************************)
(* backend/characters.py: the category tables.  An optional value (None in *)
(* the source) is a sequence of length 0 or 1.                             *)
(***************************************************************************)
Categories == <<"core", "persistent", "temporal">>

CATEGORY_LIMITS == [core |-> 3, persistent |-> 10, temporal |-> 10]

CATEGORY_MAX_VALUES == [core |-> <<30>>, persistent |-> <<20>>, temporal |-> <<>>]

TICK_RATES == [core |-> 2, persistent |-> 1, temporal |-> -1]

\* lines 91-93: value + rate, clamped to the cap when the category has one
TickValue(category, value) ==
    LET rate == TICK_RATES[category]
        cap == CATEGORY_MAX_VALUES[category]
        v == value + rate
    IN IF cap # <<>> /\ v > cap[1] THEN cap[1] ELSE v

\* mutant: a state is dropped only when its value is exactly 0
DecayListDropsOnlyZero(category, list) ==
    SelectSeq([i \in DOMAIN list |->
                  [label |-> list[i].label, value |-> TickValue(category, list[i].value)]],
              LAMBDA s : s.value # 0)

\* lines 89-96: the new list of one category
DecayList(category, list) ==
    SelectSeq([i \in DOMAIN list |->
                  [label |-> list[i].label, value |-> TickValue(category, list[i].value)]],
              LAMBDA s : s.value > 0)

RECURSIVE PromoteIgnoringLimit(_, _, _)
\* mutant: promotion without the slot check
PromoteIgnoringLimit(temporal, persistent, remaining) ==
    IF temporal = <<>> THEN [persistent |-> persistent, temporal |-> remaining]
    ELSE LET state == Head(temporal)
         IN IF state.value >= 20
            THEN PromoteIgnoringLimit(Tail(temporal), Append(persistent, state), remaining)
            ELSE PromoteIgnoringLimit(Tail(temporal), persistent, Append(remaining, state))

RECURSIVE Promote(_, _, _)
\* lines 99-105: the promotion loop over the decayed temporal list
Promote(temporal, persistent, remaining) ==
    IF temporal = <<>> THEN [persistent |-> persistent, temporal |-> remaining]
    ELSE LET state == Head(temporal)
         IN IF state.value >= 20 /\ Len(persistent) < CATEGORY_LIMITS["persistent"]
            THEN Promote(Tail(temporal), Append(persistent, state), remaining)
            ELSE Promote(Tail(temporal), persistent, Append(remaining, state))

\* a flag that stays set once a list is full
OverflowAtLimit(states) ==
    \E i \in DOMAIN Categories :
        Len(states[Categories[i]]) >= CATEGORY_LIMITS[Categories[i]]

\* lines 108-113
Overflow(states) ==
    \E i \in DOMAIN Categories :
        Len(states[Categories[i]]) > CATEGORY_LIMITS[Categories[i]]

\* tick_character
TickCharacter(ch) ==
    LET s == ch.states
        core == DecayList("core", s.core)
        persistent == DecayList("persistent", s.persistent)
        temporal == DecayList("temporal", s.temporal)
        p == Promote(temporal, persistent, <<>>)
        states == [core |-> core, persistent |-> p.persistent, temporal |-> p.temporal]
    IN [ch EXCEPT !.states = states, !.overflow_pending = Overflow(states)]

EmptyStates == [core |-> <<>>, persistent |-> <<>>, temporal |-> <<>>]

(***************************************************************************)
(* backend/characters.py: describe_state.  A description is the template   *)
(* with the label in the place of {label}: the sequence of its pieces.     *)
(***************************************************************************)
\* the label at the end of the template, or at its start
LabelLast(text) == [text |-> text, label_first |-> FALSE]

LabelFirst(text) == [text |-> text, label_first |-> TRUE]

\* (min_value, max_value, template); None is a sequence of length 0
THRESHOLD_LEVELS ==
    <<[min_v |-> 0, max_v |-> <<5>>, template |-> <<>>],
      [min_v |-> 6, max_v |-> <<10>>,
       template |-> <<LabelLast("feels a subconscious nudge related to ")>>],
      [min_v |-> 11, max_v |-> <<15>>,
       template |-> <<LabelFirst(" is manifest in their body language")>>],
      [min_v |-> 16, max_v |-> <<20>>,
       template |-> <<LabelFirst(" dominates their current priorities")>>],
      [min_v |-> 21, max_v |-> <<30>>,
       template |-> <<LabelFirst(" is a core truth they would die for")>>]>>

\* template.format(label=label)
Format(template, label) ==
    IF template.label_first THEN <<label, template.text>> ELSE <<template.text, label>>

\* lines 49-54: a level returns, or the loop goes on
LevelTakes(level, value) ==
    IF level.max_v = <<>> THEN value >= level.min_v
    ELSE level.min_v <= value /\ value <= level.max_v[1]

RECURSIVE DescribeFrom(_, _, _)
\* lines 47-55: the loop over the levels from the k-th on
DescribeFrom(k, label, value) ==
    IF k > Len(THRESHOLD_LEVELS) THEN <<>>
    ELSE IF LevelTakes(THRESHOLD_LEVELS[k], value)
    THEN IF THRESHOLD_LEVELS[k].template = <<>> THEN <<>>
         ELSE <<Format(THRESHOLD_LEVELS[k].template[1], label)>>
    ELSE DescribeFrom(k + 1, label, value)

\* describe_state: the description, or None
DescribeState(label, value) == DescribeFrom(1, label, value)

\* lines 118-128
StateLevel(value) ==
    IF value < 6 THEN "silent"
    ELSE IF value <= 10 THEN "subconscious"
    ELSE IF value <= 15 THEN "manifest"
    ELSE IF value <= 20 THEN "dominant"
    ELSE "definitive"

\* new_character, with the fields the pipeline reads
NewCharacter(name, nicknames, chattiness) ==
    [name |-> name, nicknames |-> nicknames, chattiness |-> chattiness,
     states |-> EmptyStates, overflow_pending |-> FALSE]

(***************************************************************************)
(* Model output as JSON.  A JSON value is a tagged record; an object holds *)
(* its members as a function from keys to values, so that key presence     *)
(* (dict.get with a default, "updates" in change) is decided as in Python. *)
(* A text is the JSON document plus what surrounds it: "bare", "fenced"    *)
(* (a markdown code block starting on the first line) or "prose" (other    *)
(* text around the document, which json.loads rejects).                    *)
(***************************************************************************)
JNull == [j |-> "null"]

JBool(b) == [j |-> "bool", b |-> b]

JNum(n) == [j |-> "num", n |-> n]

\* a number with a fraction, in tenths: JFloat(259) is 25.9
JFloat(tenths) == [j |-> "float", tenths |-> tenths]

JStr(s) == [j |-> "str", s |-> s]

JList(items) == [j |-> "list", items |-> items]

JObj(fields) == [j |-> "obj", fields |-> fields]

EmptyObj == JObj(<<>>)

Text(wrap, json) == [wrap |-> wrap, json |-> json]

\* dict.get(key, default)
Get(obj, key, default) ==
    IF key \in DOMAIN obj.fields THEN obj.fields[key] ELSE default

\* Python truthiness of a decoded JSON value ("if not x")
Truthy(v) ==
    CASE v.j = "null" -> FALSE
      [] v.j = "bool" -> v.b
      [] v.j = "num" -> v.n # 0
      [] v.j = "str" -> v.s # ""
      [] v.j = "list" -> v.items # <<>>
      [] v.j = "obj" -> DOMAIN v.fields # {}

\* what a "for x in v" loop over a decoded value does when v is no list:
\* an empty string or object gives no iteration, every other value either is
\* not iterable (TypeError) or yields strings, on which .get raises
IterRaises(v) ==
    CASE v.j = "str" -> v.s # ""
      [] v.j = "obj" -> DOMAIN v.fields # {}
      [] v.j = "list" -> FALSE
      [] OTHER -> TRUE

\* mutant: an object is dug out of the prose around it
ParseJsonOutputLenient(text) ==
    IF text.json.j = "obj" THEN <<text.json>> ELSE <<>>

\* _parse_json_output: None (the empty sequence) unless the text, with a
\* leading code fence stripped, decodes to an object
ParseJsonOutput(text) ==
    IF text.wrap = "prose" THEN <<>>
    ELSE IF text.json.j = "obj" THEN <<text.json>> ELSE <<>>

\* isinstance(value, (int, float)); bool is a subclass of int
IsNumber(v) == v.j \in {"num", "bool", "float"}

\* int(value): a float is cut off towards zero
IntOf(v) ==
    IF v.j = "bool" THEN (IF v.b THEN 1 ELSE 0)
    ELSE IF v.j = "float"
    THEN (IF v.tenths >= 0 THEN v.tenths \div 10 ELSE 0 - ((0 - v.tenths) \div 10))
    ELSE v.n

\* a value stored as it comes
ClampToCapNever(category, value) == value

\* extractors.py lines 51-54
ClampToCap(category, value) ==
    LET cap == CATEGORY_MAX_VALUES[category]
    IN IF cap # <<>> /\ value > cap[1] THEN cap[1] ELSE value

\* lines 55-62 with the labels compared as written
SetStateExactCase(list, label, value) ==
    LET hits == {i \in DOMAIN list : list[i].label = label}
    IN IF hits # {}
       THEN LET first == CHOOSE i \in hits : \A k \in hits : i <= k
            IN [list EXCEPT ![first].value = value]
       ELSE Append(list, [label |-> label, value |-> value])

\* lines 55-62: overwrite the first state with the label (ignoring case), or
\* append a new one
SetState(list, label, value) ==
    LET hits == {i \in DOMAIN list : Lower(list[i].label) = Lower(label)}
    IN IF hits # {}
       THEN LET first == CHOOSE i \in hits : \A k \in hits : i <= k
            IN [list EXCEPT ![first].value = value]
       ELSE Append(list, [label |-> label, value |-> value])

\* lines 44-62: one update.  The result holds the states and whether an
\* exception was raised (update.get on a value that is no dict).
ApplyUpdate(states, update) ==
    IF update.j # "obj" THEN [states |-> states, raised |-> TRUE]
    ELSE LET category == Get(update, "category", JNull)
             label == Get(update, "label", JStr(""))
             value == Get(update, "value", JNum(0))
         IN IF ~(category.j = "str" /\ category.s \in Range(Categories))
            THEN [states |-> states, raised |-> FALSE]
            ELSE IF ~Truthy(label) \/ ~IsNumber(value)
            THEN [states |-> states, raised |-> FALSE]
            ELSE [states |-> [states EXCEPT ![category.s] =
                                SetState(@, label.s, ClampToCap(category.s, IntOf(value)))],
                  raised |-> FALSE]

\* one step of a loop that an exception ends: acc holds the states so far
\* and whether an item has raised
StepUpdate(acc, update) ==
    IF acc.raised THEN acc ELSE ApplyUpdate(acc.states, update)

RECURSIVE FoldUpdates(_, _)
FoldUpdates(acc, updates) ==
    IF updates = <<>> THEN acc
    ELSE FoldUpdates(StepUpdate(acc, Head(updates)), Tail(updates))

\* line 43: the loop over the updates of one change; stops at an exception
ApplyUpdates(states, updates) ==
    FoldUpdates([states |-> states, raised |-> FALSE], updates)

\* lines 41-43: one item of state_changes, flat or with an "updates" list
ApplyChange(states, change) ==
    IF change.j # "obj" THEN [states |-> states, raised |-> TRUE]
    ELSE IF "updates" \in DOMAIN change.fields
    THEN IF change.fields["updates"].j # "list"
         THEN [states |-> states, raised |-> IterRaises(change.fields["updates"])]
         ELSE ApplyUpdates(states, change.fields["updates"].items)
    ELSE StepUpdate([states |-> states, raised |-> FALSE], change)

StepChange(acc, change) ==
    IF acc.raised THEN acc ELSE ApplyChange(acc.states, change)

RECURSIVE FoldChanges(_, _)
FoldChanges(acc, changes) ==
    IF changes = <<>> THEN acc
    ELSE FoldChanges(StepChange(acc, Head(changes)), Tail(changes))

\* line 40: the loop over state_changes; stops at an exception, keeping what
\* the earlier items wrote to the object in memory
ApplyChanges(states, changes) ==
    FoldChanges([states |-> states, raised |-> FALSE], changes)

\* the function goes on to persist only if the loop ended without exception
ThenSave(r) == [states |-> r.states, raised |-> r.raised, saves |-> ~r.raised]

\* lines 36-62 (78-103 for a persona), given the decoded object
ApplyDecoded(states, state_changes) ==
    IF ~Truthy(state_changes)
    THEN [states |-> states, raised |-> FALSE, saves |-> FALSE]
    ELSE IF state_changes.j # "list"
    THEN [states |-> states, raised |-> TRUE, saves |-> FALSE]
    ELSE ThenSave(ApplyChanges(states, state_changes.items))

\* lines 32-62 (74-103 for a persona): parse, return early on nothing to do,
\* else apply.  saves: whether the function goes on to persist.
ApplyStateChanges(states, text) ==
    IF ParseJsonOutput(text) = <<>> \/ ~Truthy(text.json)
    THEN [states |-> states, raised |-> FALSE, saves |-> FALSE]
    ELSE ApplyDecoded(states, Get(text.json, "state_changes", JList(<<>>)))

\* an applier that leaves characters.json to the end of the turn
StoreCharactersInMemory(characters, saved, r) ==
    [characters |-> characters, saved |-> saved, raised |-> r.raised]

\* line 64: save_characters(slug, characters) writes the whole roster
StoreCharacters(characters, saved, r) ==
    [characters |-> characters,
     saved |-> IF r.saves THEN characters ELSE saved,
     raised |-> r.raised]

\* the states written to every character of the roster
WithStatesOfAll(characters, i, r) ==
    StoreCharacters([j \in DOMAIN characters |-> [characters[j] EXCEPT !.states = r.states]],
                    r.saved, r)

\* the roster with the states of its i-th character replaced
WithStates(characters, i, r) ==
    StoreCharacters([characters EXCEPT ![i].states = r.states], r.saved, r)

\* apply_character_extractor on the i-th character of the roster; saved is
\* characters.json
ApplyCharacterExtractor(characters, i, text, saved) ==
    WithStates(characters, i,
               [saved |-> saved] @@ ApplyStateChanges(characters[i].states, text))

\* lines 106-115 without the search for the persona's slug
SavePersonaLocalAppending(local_personas, persona) == Append(local_personas, persona)

\* lines 106-115: replace the entry with the persona's slug, or append
SavePersonaLocal(local_personas, persona) ==
    LET hits == {i \in DOMAIN local_personas : local_personas[i].slug = persona.slug}
    IN IF hits # {}
       THEN [local_personas EXCEPT ![CHOOSE i \in hits : \A k \in hits : i <= k] = persona]
       ELSE Append(local_personas, persona)

StorePersona(persona, local, r) ==
    [persona |-> persona,
     local |-> IF r.saves THEN SavePersonaLocal(local, persona) ELSE local,
     raised |-> r.raised]

PersonaWithStates(persona, local, r) ==
    StorePersona([persona EXCEPT !.states = r.states], local, r)

\* apply_persona_extractor; local is the adventure's personas.json
ApplyPersonaExtractor(persona, text, local) ==
    PersonaWithStates(persona, local, ApplyStateChanges(persona.states, text))

RECURSIVE AddEntries(_, _, _)
\* lines 130-139: the loop over the reported entries; existing_titles are the
\* lower-cased titles seen so far
AddEntries(lorebook, existing_titles, entries) ==
    IF entries = <<>> THEN [lorebook |-> lorebook, raised |-> FALSE]
    ELSE LET entry == Head(entries)
         IN IF entry.j # "obj" THEN [lorebook |-> lorebook, raised |-> TRUE]
            ELSE LET title == Get(entry, "title", JStr(""))
                 IN IF ~Truthy(title)
                    THEN AddEntries(lorebook, existing_titles, Tail(entries))
                    ELSE IF title.j # "str"
                    THEN [lorebook |-> lorebook, raised |-> TRUE]
                    ELSE IF Lower(title.s) \in existing_titles
                    THEN AddEntries(lorebook, existing_titles, Tail(entries))
                    ELSE AddEntries(
                           Append(lorebook,
                                  [title |-> title.s,
                                   content |-> Get(entry, "content", JStr("")),
                                   keywords |-> Get(entry, "keywords", JList(<<>>))]),
                           existing_titles \cup {Lower(title.s)},
                           Tail(entries))

\* line 140: lorebook.json is written only when the loop ends without an
\* exception
StoreLorebook(lorebook, r) ==
    [lorebook |-> IF r.raised THEN lorebook ELSE r.lorebook, raised |-> r.raised]

\* lines 124-140 without the titles of the lorebook in existing_titles
AddDecodedIgnoringExisting(lorebook, new_entries) ==
    IF ~Truthy(new_entries)
    THEN [lorebook |-> lorebook, raised |-> FALSE]
    ELSE IF new_entries.j # "list"
    THEN [lorebook |-> lorebook, raised |-> TRUE]
    ELSE StoreLorebook(lorebook, AddEntries(lorebook, {}, new_entries.items))

\* lines 124-140, given the decoded lorebook_entries
AddDecoded(lorebook, new_entries) ==
    IF ~Truthy(new_entries)
    THEN [lorebook |-> lorebook, raised |-> FALSE]
    ELSE IF new_entries.j # "list"
    THEN [lorebook |-> lorebook, raised |-> TRUE]
    ELSE StoreLorebook(lorebook,
                       AddEntries(lorebook,
                                  {Lower(lorebook[i].title) : i \in DOMAIN lorebook},
                                  new_entries.items))

\* apply_lorebook_extractor; lorebook is the adventure's lorebook.json
ApplyLorebookExtractor(lorebook, text) ==
    IF ParseJsonOutput(text) = <<>> \/ ~Truthy(text.json)
    THEN [lorebook |-> lorebook, raised |-> FALSE]
    ELSE AddDecoded(lorebook, Get(text.json, "lorebook_entries", JList(<<>>)))

(***************************************************************************)
(* Narrator text.  A string is the sequence of its lines, each stripped:   *)
(* a blank line, a line of words, or a line of the shape                   *)
(* Name(emotion): words, which the dialog pattern of segments.py matches.  *)
(* The empty string is one blank line.                                     *)
(***************************************************************************)
BlankLine == [shape |-> "blank"]

PlainLine(words) == [shape |-> "plain", words |-> words]

DialogLine(name, emotion, words) ==
    [shape |-> "dialog", name |-> name, emotion |-> emotion, words |-> words]

EmptyString == <<BlankLine>>

\* a lower-case word holds a lower-case name as a substring
Contains(word, name) ==
    \/ word = name
    \/ <<name, word>> \in {<<"gar", "gareth">>}

\* the lower-cased words of a line
WordsOf(line) ==
    CASE line.shape = "blank" -> {}
      [] line.shape = "plain" -> {Lower(line.words[i]) : i \in DOMAIN line.words}
      [] line.shape = "dialog" ->
            {Lower(line.name), Lower(line.emotion)}
                \cup {Lower(line.words[i]) : i \in DOMAIN line.words}

\* name.lower() in text.lower()
Occurs(name, text) ==
    \E i \in DOMAIN text : \E w \in WordsOf(text[i]) : Contains(w, Lower(name))

\* characters.py 209-211, core.py 185-186: the name or a nickname occurs
Named(who, text) ==
    \/ Occurs(who.name, text)
    \/ \E n \in DOMAIN who.nicknames : Occurs(who.nicknames[n], text)

RECURSIVE StripLines(_)
\* "\n".join(lines).strip(), for lines that start with a line of words
StripLines(lines) ==
    IF lines # <<>> /\ lines[Len(lines)] = BlankLine
    THEN StripLines(SubSeq(lines, 1, Len(lines) - 1))
    ELSE lines

\* segments.py 42-47, 60-64: the buffered narration becomes one segment
Flush(segments, current_narration) ==
    IF current_narration = <<>> THEN segments
    ELSE Append(segments, [type |-> "narration", text |-> StripLines(current_narration)])

\* the name as the line has it instead of the known name
CanonicalAsWritten(raw_name, known_names) == raw_name

\* segments.py 20-22, 50: the known name, in the casing of its last entry
Canonical(raw_name, known_names) ==
    known_names[CHOOSE i \in DOMAIN known_names :
                   /\ Lower(known_names[i]) = Lower(raw_name)
                   /\ \A k \in DOMAIN known_names :
                         Lower(known_names[k]) = Lower(raw_name) => k <= i]

\* a lookup of the name as written, without lower-casing
IsKnownAsWritten(raw_name, known_names) ==
    \E i \in DOMAIN known_names : known_names[i] = raw_name

IsKnown(raw_name, known_names) ==
    \E i \in DOMAIN known_names : Lower(known_names[i]) = Lower(raw_name)

RECURSIVE ParseLines(_, _, _, _)
\* segments.py 29-64: the loop over the lines and the final flush
ParseLines(lines, known_names, segments, current_narration) ==
    IF lines = <<>> THEN Flush(segments, current_narration)
    ELSE IF Head(lines).shape = "blank"
    THEN ParseLines(Tail(lines), known_names, segments,
                    IF current_narration # <<>>
                    THEN Append(current_narration, BlankLine)
                    ELSE current_narration)
    ELSE IF Head(lines).shape = "dialog" /\ IsKnown(Head(lines).name, known_names)
    THEN ParseLines(Tail(lines), known_names,
                    Append(Flush(segments, current_narration),
                           [type |-> "dialog",
                            character |-> Canonical(Head(lines).name, known_names),
                            emotion |-> Head(lines).emotion,
                            text |-> Head(lines).words]),
                    <<>>)
    ELSE ParseLines(Tail(lines), known_names, segments,
                    Append(current_narration, Head(lines)))

EmptyNarration == <<[type |-> "narration", text |-> EmptyString]>>

\* parse_narrator_output
ParseNarratorOutput(text, known_names) ==
    IF \A i \in DOMAIN text : text[i] = BlankLine THEN EmptyNarration
    ELSE ParseLines(text, known_names, <<>>, <<>>)

RECURSIVE ConcatLines(_)
ConcatLines(parts) ==
    IF parts = <<>> THEN <<>> ELSE Head(parts) \o ConcatLines(Tail(parts))

\* segments_to_text: "\n".join of one line per dialog and the text of each
\* narration
SegmentsToText(segments) ==
    ConcatLines([i \in DOMAIN segments |->
                    IF segments[i].type = "dialog"
                    THEN <<DialogLine(segments[i].character, segments[i].emotion,
                                      segments[i].text)>>
                    ELSE segments[i].text])

RECURSIVE JoinParts(_)
\* "\n\n".join(parts)
JoinParts(parts) ==
    IF parts = <<>> THEN EmptyString
    ELSE IF Len(parts) = 1 THEN parts[1]
    ELSE parts[1] \o <<BlankLine>> \o JoinParts(Tail(parts))

\* core.py 135-153: one message per dialog and per narration that is not
\* blank
MessageOf(seg) ==
    IF seg.type = "dialog"
    THEN [role |-> "dialog", character |-> seg.character,
          emotion |-> seg.emotion, text |-> seg.text]
    ELSE [role |-> "narrator", text |-> seg.text]

Spoken(seg) == seg.type = "dialog" \/ seg.text # EmptyString

MessagesOf(kept) == [i \in DOMAIN kept |-> MessageOf(kept[i])]

SegmentsToMessages(segments) == MessagesOf(SelectSeq(segments, Spoken))

(***************************************************************************)
(* core.py: connections, personas, activation.                             *)
(***************************************************************************)
\* _resolve_connection, lines 43-47: the first connection of that name, or
\* None
ConnectionNamed(cfg, conn_name) ==
    LET hits == {i \in DOMAIN cfg.llm_connections :
                    cfg.llm_connections[i].name = conn_name}
    IN  IF conn_name = "" \/ hits = {} THEN <<>>
        ELSE <<cfg.llm_connections[CHOOSE i \in hits : \A k \in hits : i <= k]>>

\* lines 36-39: the connection field of the adventure's role, "" without
\* the role
RoleConnection(roles, role_name) ==
    IF role_name \in DOMAIN roles THEN roles[role_name].connection ELSE ""

\* line 41: the global mapping's name for the role, "" without one
GlobalConnection(cfg, role_name) ==
    IF role_name \in DOMAIN cfg.story_roles THEN cfg.story_roles[role_name] ELSE ""

\* a resolution that falls back to the global connection when the role's
\* own does not exist
ResolveConnectionFallingBack(cfg, roles, role_name) ==
    IF ConnectionNamed(cfg, RoleConnection(roles, role_name)) # <<>>
    THEN ConnectionNamed(cfg, RoleConnection(roles, role_name))
    ELSE ConnectionNamed(cfg, GlobalConnection(cfg, role_name))

\* a resolution that asks the global mapping first
ResolveConnectionGlobalFirst(cfg, roles, role_name) ==
    ConnectionNamed(cfg, IF GlobalConnection(cfg, role_name) # ""
                         THEN GlobalConnection(cfg, role_name)
                         ELSE RoleConnection(roles, role_name))

\* _resolve_connection: the role's own connection before the global one
ResolveConnection(cfg, roles, role_name) ==
    ConnectionNamed(cfg, IF RoleConnection(roles, role_name) # ""
                         THEN RoleConnection(roles, role_name)
                         ELSE GlobalConnection(cfg, role_name))

\* the last entry of a list of personas with the slug
LastWithSlug(personas, slug) ==
    personas[CHOOSE i \in DOMAIN personas :
                /\ personas[i].slug = slug
                /\ \A k \in DOMAIN personas : personas[k].slug = slug => k <= i]

HasSlug(personas, slug) == \E i \in DOMAIN personas : personas[i].slug = slug

\* core.py 81-90 with get_merged_personas: the persona with the active slug,
\* the adventure's own before the global one, or None
ResolvePersona(slug, global, local) ==
    IF slug = "" THEN <<>>
    ELSE IF HasSlug(local, slug)
    THEN <<[LastWithSlug(local, slug) EXCEPT !.source = "adventure"]>>
    ELSE IF HasSlug(global, slug)
    THEN <<[LastWithSlug(global, slug) EXCEPT !.source = "global"]>>
    ELSE <<>>

\* core.py 108-119: the names the parser knows
KnownNames(chars, persona) ==
    ConcatLines([i \in DOMAIN chars |-> <<chars[i].name>> \o chars[i].nicknames])
        \o (IF persona = <<>> THEN <<>> ELSE <<persona[1].name>> \o persona[1].nicknames)

\* activate_characters with the roll compared by <= instead of <
ActivateCharactersRollAtMost(chars, narration, message, rolls) ==
    LET active(i) == \/ Named(chars[i], narration)
                     \/ Named(chars[i], message)
                     \/ rolls[i] <= chars[i].chattiness
    IN  SelectSeq([i \in DOMAIN chars |-> i], active)

\* activate_characters looking for the names in the player's message only
ActivateCharactersByMessage(chars, narration, message, rolls) ==
    LET active(i) == \/ Named(chars[i], message)
                     \/ rolls[i] < chars[i].chattiness
    IN  SelectSeq([i \in DOMAIN chars |-> i], active)

\* activate_characters: the indices of the active characters, in roster
\* order; rolls[i] is the i-th character's random.randint(0, 99)
ActivateCharacters(chars, narration, message, rolls) ==
    LET active(i) == \/ Named(chars[i], narration)
                     \/ Named(chars[i], message)
                     \/ rolls[i] < chars[i].chattiness
    IN  SelectSeq([i \in DOMAIN chars |-> i], active)

(***************************************************************************)
(* The state.                                                              *)
(*   config, story_roles, adventure, player_message: the arguments of      *)
(*     run_pipeline that a turn only reads;                                *)
(*   savedChars, localPersonas, globalPersonas, lorebook, messagesLog: the *)
(*     adventure's files characters.json, personas.json, the global        *)
(*     personas.json, lorebook.json and messages.json;                     *)
(*   characters, active_persona, new_messages, narration_so_far_parts,     *)
(*     round_all_narrations, round_narration_parts, round_num,             *)
(*     active_chars, idx, any_acted: the objects and locals of a turn;     *)
(*   pc, error: where the turn stands and the exception that ended it;     *)
(*   calls: the model calls made so far, in order;                         *)
(*   op, payload, raised: the operation applied last, the model output it  *)
(*     was given and whether it raised;                                    *)
(*   before: memory and files as they were when the operation (in Spec:    *)
(*     the turn) started.                                                  *)
(***************************************************************************)
VARIABLES config, story_roles, adventure, player_message,
          savedChars, localPersonas, globalPersonas, lorebook, messagesLog,
          characters, active_persona, new_messages, narration_so_far_parts,
          round_all_narrations, round_narration_parts, round_num,
          active_chars, idx, any_acted, pc, error, calls,
          op, payload, raised, before

inputVars == <<config, story_roles, adventure, player_message>>

fileVars == <<savedChars, localPersonas, globalPersonas, lorebook, messagesLog>>

turnVars == <<new_messages, narration_so_far_parts, round_all_narrations,
              round_narration_parts, round_num, active_chars, idx, any_acted,
              pc, error, calls>>

vars == <<config, story_roles, adventure, player_message,
          savedChars, localPersonas, globalPersonas, lorebook, messagesLog,
          characters, active_persona, new_messages, narration_so_far_parts,
          round_all_narrations, round_narration_parts, round_num,
          active_chars, idx, any_acted, pc, error, calls,
          op, payload, raised, before>>

\* memory and files, as an operation finds them
Snapshot ==
    [characters |-> characters, active_persona |-> active_persona,
     savedChars |-> savedChars, localPersonas |-> localPersonas,
     globalPersonas |-> globalPersonas, lorebook |-> lorebook,
     messagesLog |-> messagesLog]

NoText == Text("prose", JNull)

RoleNames == {"narrator", "character_intention", "extractor", "lorebook_extractor"}

\* a role of the adventure's story-roles.json
Role(connection, prompt) == [connection |-> connection, prompt |-> prompt]

\* no turn is running: the values the turn's variables have in the
\* specifications of single functions
NoTurn ==
    /\ config = [story_roles |-> [r \in RoleNames |-> ""], llm_connections |-> <<>>]
    /\ story_roles = [narrator |-> Role("", ""), character_intention |-> Role("", ""),
                      extractor |-> Role("", ""), lorebook_extractor |-> Role("", ""),
                      max_rounds |-> 3, sandbox |-> FALSE]
    /\ adventure = [active_persona |-> ""]
    /\ player_message = <<>>
    /\ new_messages = <<>>
    /\ narration_so_far_parts = <<>>
    /\ round_all_narrations = <<>>
    /\ round_narration_parts = <<>>
    /\ round_num = 0
    /\ active_chars = <<>>
    /\ idx = 0
    /\ any_acted = FALSE
    /\ pc = "idle"
    /\ error = ""
    /\ calls = <<>>
    /\ messagesLog = <<>>

(***************************************************************************)
(* TickSpec: tick_character applied, any number of times, to a character   *)
(* whose lists are drawn from a bounded set.  The persistent list is       *)
(* empty, short, one below its limit, at its limit or one above it, so     *)
(* that promotion meets a list with and without a free slot.               *)
(***************************************************************************)
CoreValues == {-2, 0, 29}

PersistentValues == {-1, 0, 20, 25}

TemporalValues == {0, 1, 20, 21, 25}

PersistentSizes ==
    {0, 1, CATEGORY_LIMITS["persistent"] - 1, CATEGORY_LIMITS["persistent"],
     CATEGORY_LIMITS["persistent"] + 1}

CoreLabels == <<"Loyal", "brave", "proud", "kind">>

PersistentLabels ==
    <<"grumpy", "trusts", "fears", "owes", "likes", "hates",
      "knows", "guards", "seeks", "doubts", "envies", "misses">>

TemporalLabels == <<"Angry", "alert", "tired", "hungry">>

\* a list of n states, the i-th labelled labels[i], with values from values
Lists(labels, values, n) ==
    {[i \in 1..n |-> [label |-> labels[i], value |-> f[i]]] : f \in [1..n -> values]}

\* persistent lists of n states: the first takes any value, the others 20
PersistentLists(n) ==
    {[i \in 1..n |-> [label |-> PersistentLabels[i],
                      value |-> IF i = 1 THEN v ELSE 20]] : v \in PersistentValues}

TickStates ==
    {[core |-> c, persistent |-> p, temporal |-> t] :
        c \in UNION {Lists(CoreLabels, CoreValues, n) : n \in 0..MaxCore},
        p \in UNION {PersistentLists(n) : n \in PersistentSizes},
        t \in UNION {Lists(TemporalLabels, TemporalValues, n) : n \in 0..MaxTemporal}}

TickInit ==
    /\ NoTurn
    /\ \E s \in TickStates, o \in BOOLEAN :
          characters = <<[NewCharacter("Gareth", <<"Gar">>, 50)
                            EXCEPT !.states = s, !.overflow_pending = o]>>
    /\ savedChars = characters
    /\ active_persona = <<>>
    /\ localPersonas = <<>>
    /\ globalPersonas = <<>>
    /\ lorebook = <<>>
    /\ op = [name |-> "init", who |-> 0]
    /\ payload = NoText
    /\ raised = FALSE
    /\ before = Snapshot

\* tick_character(characters[i])
TickStep(i) ==
    /\ before' = Snapshot
    /\ characters' = [characters EXCEPT ![i] = TickCharacter(@)]
    /\ op' = [name |-> "tick", who |-> i]
    /\ UNCHANGED <<inputVars, fileVars, turnVars, active_persona, payload, raised>>

TickNext == \E i \in DOMAIN characters : TickStep(i)

TickSpec == TickInit /\ [][TickNext]_vars

(***************************************************************************)
(* ExtractSpec: one of the three extractor appliers is applied once to     *)
(* memory and files drawn from a small set, with model output drawn from a *)
(* bounded set of texts: JSON documents with up to MaxChanges items, bare, *)
(* fenced or surrounded by prose.                                          *)
(***************************************************************************)
Update(category, label, value) ==
    JObj([category |-> category, label |-> label, value |-> value])

\* items of state_changes that are well-formed updates
GoodItems ==
    {Update(JStr("temporal"), JStr("Angry"), JNum(7)),
     Update(JStr("temporal"), JStr("ANGRY"), JNum(3)),
     Update(JStr("core"), JStr("Loyal"), JNum(99)),
     Update(JStr("persistent"), JStr("brave"), JFloat(259)),
     Update(JStr("temporal"), JStr("alert"), JFloat(995)),
     JObj([updates |-> JList(<<Update(JStr("persistent"), JStr("brave"), JBool(TRUE))>>)])}

\* items that are JSON but not of the expected shape: not an object, an
\* unknown category, an empty label, a value that is no number
NonObjectItems == {JStr("oops"), JNum(5)}

SkippedItems ==
    {Update(JStr("mood"), JStr("Angry"), JNum(7)),
     Update(JStr("temporal"), JStr(""), JNum(7)),
     Update(JStr("temporal"), JStr("Angry"), JStr("high")),
     JObj([label |-> JStr("Angry"), value |-> JNum(7)])}

StateItems == GoodItems \cup NonObjectItems \cup SkippedItems

\* entries of lorebook_entries
LoreItems ==
    {JObj([title |-> JStr("Sword"), content |-> JStr("new")]),
     JObj([title |-> JStr("CAVE"), content |-> JStr("new"), keywords |-> JList(<<JStr("dark")>>)]),
     JObj([title |-> JStr(""), content |-> JStr("new")]),
     JObj([content |-> JStr("new")]),
     JStr("oops")}

\* the JSON documents a model is taken to answer with
Documents ==
    {JObj([state_changes |-> JList(items)]) :
        items \in SeqsUpTo(StateItems, MaxChanges)}
    \cup {JObj([lorebook_entries |-> JList(items)]) :
        items \in SeqsUpTo(LoreItems, MaxChanges)}
    \cup {EmptyObj, JObj([state_changes |-> JNum(5)]), JObj([lorebook_entries |-> JStr("none")]),
          JList(<<Update(JStr("temporal"), JStr("Angry"), JNum(7))>>),
          JStr("nothing changed"), JNum(0), JNull}

Texts == {Text(wrap, doc) : wrap \in {"bare", "fenced", "prose"}, doc \in Documents}

\* a character or persona with some states
SomeStates ==
    [core |-> <<[label |-> "Loyal", value |-> 10]>>,
     persistent |-> <<>>,
     temporal |-> <<[label |-> "alert", value |-> 5], [label |-> "Angry", value |-> 9]>>]

\* new_persona, with the fields the pipeline reads, as get_merged_personas
\* returns it (with its source)
NewPersona(name, slug, nicknames, source) ==
    [name |-> name, slug |-> slug, nicknames |-> nicknames,
     states |-> EmptyStates, overflow_pending |-> FALSE, source |-> source]

Aldric == NewPersona("Aldric", "aldric", <<>>, "global")

OldEntry == [title |-> "Cave", content |-> JStr("old"), keywords |-> JList(<<>>)]

ExtractInit ==
    /\ NoTurn
    /\ \E s1 \in {EmptyStates, SomeStates}, s2 \in {SomeStates} :
          characters = <<[NewCharacter("Gareth", <<"Gar">>, 50) EXCEPT !.states = s1],
                         [NewCharacter("Elena", <<>>, 50) EXCEPT !.states = s2]>>
    /\ savedChars = characters
    /\ \E s \in {EmptyStates, SomeStates} :
          active_persona = <<[Aldric EXCEPT !.states = s]>>
    /\ globalPersonas = <<Aldric>>
    /\ localPersonas \in {<<>>, <<NewPersona("Mira", "mira", <<>>, "adventure")>>,
                          <<[active_persona[1] EXCEPT !.source = "adventure"]>>}
    /\ lorebook \in {<<>>, <<OldEntry>>}
    /\ op = [name |-> "init", who |-> 0]
    /\ payload = NoText
    /\ raised = FALSE
    /\ before = Snapshot

\* apply_character_extractor(slug, characters[i], text, characters), once
ExtractCharacter(i) ==
    /\ op.name = "init"
    /\ before' = Snapshot
    /\ \E text \in Texts :
          /\ \E r \in {ApplyCharacterExtractor(characters, i, text, savedChars)} :
                /\ characters' = r.characters
                /\ savedChars' = r.saved
                /\ raised' = r.raised
          /\ payload' = text
    /\ op' = [name |-> "character_extractor", who |-> i]
    /\ UNCHANGED <<inputVars, turnVars, active_persona, localPersonas, globalPersonas,
                   lorebook, messagesLog>>

\* apply_persona_extractor(slug, active_persona, text), once
ExtractPersona ==
    /\ op.name = "init"
    /\ before' = Snapshot
    /\ \E text \in Texts :
          /\ \E r \in {ApplyPersonaExtractor(active_persona[1], text, localPersonas)} :
                /\ active_persona' = <<r.persona>>
                /\ localPersonas' = r.local
                /\ raised' = r.raised
          /\ payload' = text
    /\ op' = [name |-> "persona_extractor", who |-> 0]
    /\ UNCHANGED <<inputVars, turnVars, characters, savedChars, globalPersonas,
                   lorebook, messagesLog>>

\* apply_lorebook_extractor(slug, text), once
ExtractLorebook ==
    /\ op.name = "init"
    /\ before' = Snapshot
    /\ \E text \in Texts :
          /\ \E r \in {ApplyLorebookExtractor(lorebook, text)} :
                /\ lorebook' = r.lorebook
                /\ raised' = r.raised
          /\ payload' = text
    /\ op' = [name |-> "lorebook_extractor", who |-> 0]
    /\ UNCHANGED <<inputVars, turnVars, characters, savedChars, active_persona,
                   localPersonas, globalPersonas, messagesLog>>

\* the answers of the lorebook extractor in later turns
LoreTexts ==
    {Text("bare", JObj([lorebook_entries |-> JList(items)])) :
        items \in SeqsUpTo(LoreItems, MaxChanges)}

\* apply_lorebook_extractor(slug, text) again, on the lorebook.json the
\* earlier calls left; after a call that left the file as it was the next
\* call does what ExtractLorebook does from the start
ExtractLorebookAgain ==
    /\ op.name = "lorebook_extractor"
    /\ lorebook # before.lorebook
    /\ before' = Snapshot
    /\ \E text \in LoreTexts :
          /\ \E r \in {ApplyLorebookExtractor(lorebook, text)} :
                /\ lorebook' = r.lorebook
                /\ raised' = r.raised
          /\ payload' = text
    /\ op' = [name |-> "lorebook_extractor", who |-> 1]
    /\ UNCHANGED <<inputVars, turnVars, characters, savedChars, active_persona,
                   localPersonas, globalPersonas, messagesLog>>

ExtractNext ==
    \/ \E i \in DOMAIN characters : ExtractCharacter(i)
    \/ ExtractPersona
    \/ ExtractLorebook
    \/ ExtractLorebookAgain

ExtractSpec == ExtractInit /\ [][ExtractNext]_vars

(***************************************************************************)
(* Spec: one turn of run_pipeline, from the call to the return or to the   *)
(* exception that ends it.  Every model call is a step of its own: it      *)
(* answers with a text from a small set or fails (llm.generate raises      *)
(* HTTPException on transport errors, bad status and unexpected replies).  *)
(* A template is "ok", "" (not set) or "bad" (it does not render).  The    *)
(* roles are set up as in the tests (bound globally, with a template that  *)
(* renders) except for at most one role, which is unassigned, bound in the *)
(* adventure, bound to a connection that does not exist, or has no or a    *)
(* bad template.                                                           *)
(***************************************************************************)
MaxRounds == 2

RollValues == {0, 49, 50, 99}

\* what the narrator answers: nothing, or a text that names Aldric and has
\* Elena speak
NarratorTexts ==
    {EmptyString,
     <<PlainLine(<<"Aldric", "waves">>), BlankLine,
       DialogLine("ELENA", "calm", <<"hello">>)>>}

IntentionTexts == {<<PlainLine(<<"waits">>)>>}

ExtractorTexts ==
    {Text("bare", JObj([state_changes |->
                           JList(<<Update(JStr("temporal"), JStr("Angry"), JNum(7))>>)])),
     Text("bare", JObj([state_changes |-> JList(<<JStr("oops")>>)])),
     Text("prose", JStr("nothing changed"))}

LorebookTexts ==
    {Text("bare", JObj([lorebook_entries |->
                           JList(<<JObj([title |-> JStr("Sword"), content |-> JStr("new")])>>)])),
     Text("bare", JObj([lorebook_entries |-> JList(<<JStr("oops")>>)])),
     Text("prose", JStr("nothing new"))}

PlayerMessages == {<<PlainLine(<<"look">>)>>, <<PlainLine(<<"ask", "Elena">>)>>}

\* how a role is set up: the adventure's connection, the global
\* connection, the template
RoleSetup(local, global, prompt) == [local |-> local, global |-> global, prompt |-> prompt]

DefaultSetup == RoleSetup("", "llm", "ok")

OtherSetups ==
    {RoleSetup("", "", "ok"), RoleSetup("llm", "", "ok"), RoleSetup("ghost", "llm", "ok"),
     RoleSetup("", "llm", ""), RoleSetup("", "llm", "bad")}

RoleSetups ==
    {f \in [RoleNames -> {DefaultSetup} \cup OtherSetups] :
        \A r1, r2 \in RoleNames :
            f[r1] # DefaultSetup /\ f[r2] # DefaultSetup => r1 = r2}

\* the characters of the adventure: nobody, a Gareth who acts on every
\* other roll, or a Gareth who always acts and an Elena who acts only when
\* she is named
Rosters ==
    {<<>>,
     <<[NewCharacter("Gareth", <<"Gar">>, 50) EXCEPT !.states = SomeStates]>>,
     <<[NewCharacter("Gareth", <<"Gar">>, 100) EXCEPT !.states = SomeStates],
       NewCharacter("Elena", <<>>, 0)>>}

\* the adventure's own copy of the persona, as an earlier turn saved it
AldricLocal ==
    [Aldric EXCEPT !.states = [EmptyStates EXCEPT
                                  !.temporal = <<[label |-> "Angry", value |-> 9]>>]]

\* no active persona; the global persona alone; the global persona with a
\* copy in the adventure's personas.json, behind another persona
PersonaSetups ==
    {[slug |-> "", local |-> <<>>],
     [slug |-> "aldric", local |-> <<>>],
     [slug |-> "aldric",
      local |-> <<NewPersona("Mira", "mira", <<>>, "adventure"), AldricLocal>>]}

OldMessage == [role |-> "narrator", text |-> <<PlainLine(<<"before">>)>>]

Init ==
    /\ \E f \in RoleSetups, m \in 0..MaxRounds, sandbox \in BOOLEAN :
          /\ sandbox => \A r \in RoleNames : f[r] = DefaultSetup
          /\ config = [story_roles |-> [r \in RoleNames |-> f[r].global],
                       llm_connections |-> <<[name |-> "llm"]>>]
          /\ story_roles =
                [narrator |-> Role(f["narrator"].local, f["narrator"].prompt),
                 character_intention |-> Role(f["character_intention"].local,
                                              f["character_intention"].prompt),
                 extractor |-> Role(f["extractor"].local, f["extractor"].prompt),
                 lorebook_extractor |-> Role(f["lorebook_extractor"].local,
                                             f["lorebook_extractor"].prompt),
                 max_rounds |-> m, sandbox |-> sandbox]
    /\ \E p \in PersonaSetups :
          /\ adventure = [active_persona |-> p.slug]
          /\ localPersonas = p.local
    /\ player_message \in PlayerMessages
    /\ characters \in Rosters
    /\ savedChars = characters
    /\ active_persona = <<>>
    /\ globalPersonas = <<[Aldric EXCEPT !.states = SomeStates]>>
    /\ lorebook = <<OldEntry>>
    /\ messagesLog = <<OldMessage>>
    /\ new_messages = <<>>
    /\ narration_so_far_parts = <<>>
    /\ round_all_narrations = <<>>
    /\ round_narration_parts = <<>>
    /\ round_num = 0
    /\ active_chars = <<>>
    /\ idx = 0
    /\ any_acted = FALSE
    /\ pc = "start"
    /\ error = ""
    /\ calls = <<>>
    /\ op = [name |-> "turn", who |-> 0]
    /\ payload = NoText
    /\ raised = FALSE
    /\ before = Snapshot

ghostVars == <<op, payload, raised, before>>

\* the locals of run_pipeline that depend on its arguments only
narrator_conn == ResolveConnection(config, story_roles, "narrator")

intention_conn == ResolveConnection(config, story_roles, "character_intention")

extractor_conn == ResolveConnection(config, story_roles, "extractor")

lorebook_ext_conn == ResolveConnection(config, story_roles, "lorebook_extractor")

narrator_prompt_tpl == story_roles["narrator"].prompt

char_intention_tpl == story_roles["character_intention"].prompt

char_extractor_tpl == story_roles["extractor"].prompt

lorebook_ext_tpl == story_roles["lorebook_extractor"].prompt

max_rounds == story_roles["max_rounds"]

\* render_prompt raises PromptError
Unrenderable(tpl) == tpl = "bad"

narration_so_far == JoinParts(narration_so_far_parts)

known_names == KnownNames(characters, active_persona)

\* a model call, as the turn's trace records it: the role, the character
\* or persona it is about, the round (0: the player's resolution)
Call(role, about, round) == [role |-> role, about |-> about, round |-> round]

\* an exception leaves run_pipeline
Raise(exception) ==
    /\ pc' = "failed"
    /\ error' = exception

\* the turn goes on at p
Goto(p) ==
    /\ pc' = p
    /\ UNCHANGED error

\* an extractor applier returned, or raised out of run_pipeline
After(applier_raised, p) ==
    /\ pc' = IF applier_raised THEN "failed" ELSE p
    /\ error' = IF applier_raised THEN "AttributeError" ELSE error

loopVars == <<round_all_narrations, round_narration_parts, round_num, active_chars, any_acted>>

PlayerMessage == [role |-> "player", text |-> player_message]

\* core.py 63-70: the narrator has no connection
RejectUnassigned ==
    /\ pc = "start"
    /\ narrator_conn = <<>>
    /\ new_messages' = <<PlayerMessage>>
    /\ Raise("ValueError")
    /\ UNCHANGED <<inputVars, fileVars, characters, active_persona, narration_so_far_parts,
                   loopVars, idx, calls, ghostVars>>

\* core.py 60-153: the player's message, the connections, the persona
Begin ==
    /\ pc = "start"
    /\ narrator_conn # <<>>
    /\ new_messages' = <<PlayerMessage>>
    /\ active_persona' = ResolvePersona(adventure.active_persona, globalPersonas,
                                        localPersonas)
    /\ Goto("narrator")
    /\ UNCHANGED <<inputVars, fileVars, characters, narration_so_far_parts,
                   loopVars, idx, calls, ghostVars>>

\* core.py 160: no narrator template
SkipNarrator ==
    /\ pc = "narrator"
    /\ narrator_prompt_tpl = ""
    /\ idx' = 1
    /\ Goto("p1_extract")
    /\ UNCHANGED <<inputVars, fileVars, characters, active_persona, new_messages,
                   narration_so_far_parts, loopVars, calls, ghostVars>>

\* core.py 162-165
NarratorTemplateError ==
    /\ pc = "narrator"
    /\ Unrenderable(narrator_prompt_tpl)
    /\ Raise("ValueError")
    /\ UNCHANGED <<inputVars, fileVars, characters, active_persona, new_messages,
                   narration_so_far_parts, loopVars, idx, calls, ghostVars>>

NarratorCalling ==
    /\ pc = "narrator"
    /\ narrator_prompt_tpl # ""
    /\ ~Unrenderable(narrator_prompt_tpl)

\* core.py 167-171: llm.generate raises
NarratorFails ==
    /\ NarratorCalling
    /\ calls' = Append(calls, Call("narrator", "player", 0))
    /\ Raise("HTTPException")
    /\ UNCHANGED <<inputVars, fileVars, characters, active_persona, new_messages,
                   narration_so_far_parts, loopVars, idx, ghostVars>>

\* core.py 167-175: the narrator resolves the player's message
PlayerResolution(text) ==
    /\ NarratorCalling
    /\ calls' = Append(calls, Call("narrator", "player", 0))
    /\ \E segments \in {ParseNarratorOutput(text, known_names)} :
          /\ new_messages' = new_messages \o SegmentsToMessages(segments)
          /\ narration_so_far_parts' =
                Append(narration_so_far_parts, SegmentsToText(segments))
    /\ idx' = 1
    /\ Goto("p1_extract")
    /\ UNCHANGED <<inputVars, fileVars, characters, active_persona, loopVars, ghostVars>>

\* core.py 181-184: the loop over the roster is entered and not over
P1Extracting ==
    /\ pc = "p1_extract"
    /\ extractor_conn # <<>>
    /\ characters # <<>>
    /\ char_extractor_tpl # ""
    /\ narration_so_far # EmptyString
    /\ idx <= Len(characters)

P1ExtractDone ==
    /\ pc = "p1_extract"
    /\ ~P1Extracting
    /\ Goto("p1_persona")
    /\ UNCHANGED <<inputVars, fileVars, characters, active_persona, new_messages,
                   narration_so_far_parts, loopVars, idx, calls, ghostVars>>

\* core.py 186, 192-195: the character is not named, or the template does
\* not render
P1CharSkip ==
    /\ P1Extracting
    /\ \/ ~Named(characters[idx], narration_so_far)
       \/ Unrenderable(char_extractor_tpl)
    /\ idx' = idx + 1
    /\ Goto("p1_extract")
    /\ UNCHANGED <<inputVars, fileVars, characters, active_persona, new_messages,
                   narration_so_far_parts, loopVars, calls, ghostVars>>

P1Calling ==
    /\ P1Extracting
    /\ Named(characters[idx], narration_so_far)
    /\ ~Unrenderable(char_extractor_tpl)

\* core.py 196-200: llm.generate raises
P1CharExtractFails ==
    /\ P1Calling
    /\ calls' = Append(calls, Call("extractor", characters[idx].name, 0))
    /\ Raise("HTTPException")
    /\ UNCHANGED <<inputVars, fileVars, characters, active_persona, new_messages,
                   narration_so_far_parts, loopVars, idx, ghostVars>>

\* core.py 196-201
P1CharExtract(text) ==
    /\ P1Calling
    /\ calls' = Append(calls, Call("extractor", characters[idx].name, 0))
    /\ \E r \in {ApplyCharacterExtractor(characters, idx, text, savedChars)} :
          /\ characters' = r.characters
          /\ savedChars' = r.saved
          /\ After(r.raised, "p1_extract")
    /\ idx' = idx + 1
    /\ UNCHANGED <<inputVars, localPersonas, globalPersonas, lorebook, messagesLog,
                   active_persona, new_messages, narration_so_far_parts, loopVars,
                   ghostVars>>

\* core.py 207-218: the persona extractor is called for the player's
\* resolution
P1PersonaCalling ==
    /\ pc = "p1_persona"
    /\ extractor_conn # <<>>
    /\ active_persona # <<>>
    /\ narration_so_far # EmptyString
    /\ char_extractor_tpl # ""
    /\ Named(active_persona[1], narration_so_far)
    /\ ~Unrenderable(char_extractor_tpl)

\* core.py 231
EnterRounds(entered) ==
    /\ round_all_narrations' = IF entered THEN <<narration_so_far>> ELSE round_all_narrations
    /\ UNCHANGED <<round_narration_parts, round_num, active_chars, any_acted>>

P1PersonaSkip ==
    /\ pc = "p1_persona"
    /\ ~P1PersonaCalling
    /\ EnterRounds(TRUE)
    /\ Goto("round")
    /\ UNCHANGED <<inputVars, fileVars, characters, active_persona, new_messages,
                   narration_so_far_parts, idx, calls, ghostVars>>

\* core.py 219-223: llm.generate raises
P1PersonaExtractFails ==
    /\ P1PersonaCalling
    /\ calls' = Append(calls, Call("extractor", active_persona[1].name, 0))
    /\ Raise("HTTPException")
    /\ UNCHANGED <<inputVars, fileVars, characters, active_persona, new_messages,
                   narration_so_far_parts, loopVars, idx, ghostVars>>

\* core.py 219-224
P1PersonaExtract(text) ==
    /\ P1PersonaCalling
    /\ calls' = Append(calls, Call("extractor", active_persona[1].name, 0))
    /\ \E r \in {ApplyPersonaExtractor(active_persona[1], text, localPersonas)} :
          /\ active_persona' = <<r.persona>>
          /\ localPersonas' = r.local
          /\ After(r.raised, "round")
          /\ EnterRounds(~r.raised)
    /\ UNCHANGED <<inputVars, savedChars, globalPersonas, lorebook, messagesLog,
                   characters, new_messages, narration_so_far_parts, idx, ghostVars>>

\* a loop that runs once more
LoopExhaustedLate(n, limit) == n > limit

\* core.py 233: range(max_rounds) is used up
LoopExhausted(n, limit) == n >= limit

\* core.py 233-235: the loop is over, or left at once
RoundsOver ==
    /\ pc = "round"
    /\ \/ LoopExhausted(round_num, max_rounds)
       \/ characters = <<>>
       \/ intention_conn = <<>>
    /\ Goto("lorebook")
    /\ UNCHANGED <<inputVars, fileVars, characters, active_persona, new_messages,
                   narration_so_far_parts, loopVars, idx, calls, ghostVars>>

\* core.py 233-235 without the test of the intention connection
RoundRunsUnassigned ==
    /\ pc = "round"
    /\ ~LoopExhausted(round_num, max_rounds)
    /\ characters # <<>>

RoundRuns ==
    /\ pc = "round"
    /\ ~LoopExhausted(round_num, max_rounds)
    /\ characters # <<>>
    /\ intention_conn # <<>>

\* core.py 237-241: nobody is active
NobodyActive(rolls) ==
    /\ RoundRuns
    /\ ActivateCharacters(characters, narration_so_far, player_message, rolls) = <<>>
    /\ Goto("lorebook")
    /\ UNCHANGED <<inputVars, fileVars, characters, active_persona, new_messages,
                   narration_so_far_parts, loopVars, idx, calls, ghostVars>>

\* core.py 237-244
RoundBegin(rolls) ==
    /\ RoundRuns
    /\ \E active \in {ActivateCharacters(characters, narration_so_far, player_message,
                                         rolls)} :
          /\ active # <<>>
          /\ active_chars' = active
    /\ any_acted' = FALSE
    /\ round_narration_parts' = <<>>
    /\ idx' = 1
    /\ Goto("intention")
    /\ UNCHANGED <<inputVars, fileVars, characters, active_persona, new_messages,
                   narration_so_far_parts, round_all_narrations, round_num, calls,
                   ghostVars>>

\* the character whose turn it is in the round
char == characters[active_chars[idx]]

\* core.py 246: the loop over the active characters is not over
Acting ==
    /\ pc = "intention"
    /\ idx <= Len(active_chars)

\* core.py 248-250, 259-262: no intention template, or it does not render
IntentionSkip ==
    /\ Acting
    /\ \/ char_intention_tpl = ""
       \/ Unrenderable(char_intention_tpl)
    /\ idx' = idx + 1
    /\ Goto("intention")
    /\ UNCHANGED <<inputVars, fileVars, characters, active_persona, new_messages,
                   narration_so_far_parts, loopVars, calls, ghostVars>>

IntentionCalling ==
    /\ Acting
    /\ char_intention_tpl # ""
    /\ ~Unrenderable(char_intention_tpl)

\* core.py 264-268: llm.generate raises
IntentionFails ==
    /\ IntentionCalling
    /\ calls' = Append(calls, Call("character_intention", char.name, round_num + 1))
    /\ Raise("HTTPException")
    /\ UNCHANGED <<inputVars, fileVars, characters, active_persona, new_messages,
                   narration_so_far_parts, loopVars, idx, ghostVars>>

\* core.py 264-289: the intention and its message; without a narrator
\* template that renders the next character follows
CharIntention(text) ==
    /\ IntentionCalling
    /\ calls' = Append(calls, Call("character_intention", char.name, round_num + 1))
    /\ new_messages' = Append(new_messages,
                              [role |-> "intention", character |-> char.name,
                               text |-> text])
    /\ IF narrator_prompt_tpl = "" \/ Unrenderable(narrator_prompt_tpl)
       THEN idx' = idx + 1 /\ Goto("intention")
       ELSE idx' = idx /\ Goto("resolve")
    /\ UNCHANGED <<inputVars, fileVars, characters, active_persona,
                   narration_so_far_parts, loopVars, ghostVars>>

\* core.py 291-295: llm.generate raises
ResolveFails ==
    /\ pc = "resolve"
    /\ calls' = Append(calls, Call("narrator", char.name, round_num + 1))
    /\ Raise("HTTPException")
    /\ UNCHANGED <<inputVars, fileVars, characters, active_persona, new_messages,
                   narration_so_far_parts, loopVars, idx, ghostVars>>

\* core.py 291-303: the narrator resolves the intention
CharResolve(text) ==
    /\ pc = "resolve"
    /\ calls' = Append(calls, Call("narrator", char.name, round_num + 1))
    /\ \E segments \in {ParseNarratorOutput(text, known_names)} :
          /\ new_messages' = new_messages \o SegmentsToMessages(segments)
          /\ narration_so_far_parts' =
                Append(narration_so_far_parts, SegmentsToText(segments))
          /\ round_narration_parts' =
                Append(round_narration_parts, SegmentsToText(segments))
    /\ any_acted' = TRUE
    /\ Goto("char_extract")
    /\ UNCHANGED <<inputVars, fileVars, characters, active_persona,
                   round_all_narrations, round_num, active_chars, idx, ghostVars>>

\* core.py 299: the resolution just made
resolution_plain == narration_so_far_parts[Len(narration_so_far_parts)]

\* core.py 306-308, 314-317: no extractor, or no template: the persona
\* extractor follows; a template that does not render: the next character
CharExtractSkip ==
    /\ pc = "char_extract"
    /\ \/ extractor_conn = <<>>
       \/ char_extractor_tpl = ""
       \/ Unrenderable(char_extractor_tpl)
    /\ IF extractor_conn # <<>> /\ Unrenderable(char_extractor_tpl)
       THEN idx' = idx + 1 /\ Goto("intention")
       ELSE idx' = idx /\ Goto("persona_extract")
    /\ UNCHANGED <<inputVars, fileVars, characters, active_persona, new_messages,
                   narration_so_far_parts, loopVars, calls, ghostVars>>

CharExtractCalling ==
    /\ pc = "char_extract"
    /\ extractor_conn # <<>>
    /\ char_extractor_tpl # ""
    /\ ~Unrenderable(char_extractor_tpl)

\* core.py 318-322: llm.generate raises
CharExtractFails ==
    /\ CharExtractCalling
    /\ calls' = Append(calls, Call("extractor", char.name, round_num + 1))
    /\ Raise("HTTPException")
    /\ UNCHANGED <<inputVars, fileVars, characters, active_persona, new_messages,
                   narration_so_far_parts, loopVars, idx, ghostVars>>

\* core.py 318-323
CharExtract(text) ==
    /\ CharExtractCalling
    /\ calls' = Append(calls, Call("extractor", char.name, round_num + 1))
    /\ \E r \in {ApplyCharacterExtractor(characters, active_chars[idx], text, savedChars)} :
          /\ characters' = r.characters
          /\ savedChars' = r.saved
          /\ After(r.raised, "persona_extract")
    /\ UNCHANGED <<inputVars, localPersonas, globalPersonas, lorebook, messagesLog,
                   active_persona, new_messages, narration_so_far_parts, loopVars, idx,
                   ghostVars>>

\* core.py 326-337: the persona extractor is called for the resolution
RoundPersonaCalling ==
    /\ pc = "persona_extract"
    /\ extractor_conn # <<>>
    /\ active_persona # <<>>
    /\ char_extractor_tpl # ""
    /\ Named(active_persona[1], resolution_plain)
    /\ ~Unrenderable(char_extractor_tpl)

RoundPersonaSkip ==
    /\ pc = "persona_extract"
    /\ ~RoundPersonaCalling
    /\ idx' = idx + 1
    /\ Goto("intention")
    /\ UNCHANGED <<inputVars, fileVars, characters, active_persona, new_messages,
                   narration_so_far_parts, loopVars, calls, ghostVars>>

\* core.py 338-342: llm.generate raises
RoundPersonaExtractFails ==
    /\ RoundPersonaCalling
    /\ calls' = Append(calls, Call("extractor", active_persona[1].name, round_num + 1))
    /\ Raise("HTTPException")
    /\ UNCHANGED <<inputVars, fileVars, characters, active_persona, new_messages,
                   narration_so_far_parts, loopVars, idx, ghostVars>>

\* core.py 338-343
RoundPersonaExtract(text) ==
    /\ RoundPersonaCalling
    /\ calls' = Append(calls, Call("extractor", active_persona[1].name, round_num + 1))
    /\ \E r \in {ApplyPersonaExtractor(active_persona[1], text, localPersonas)} :
          /\ active_persona' = <<r.persona>>
          /\ localPersonas' = r.local
          /\ After(r.raised, "intention")
    /\ idx' = idx + 1
    /\ UNCHANGED <<inputVars, savedChars, globalPersonas, lorebook, messagesLog,
                   characters, new_messages, narration_so_far_parts, loopVars, ghostVars>>

\* core.py 348-355 without the test of any_acted
RoundEndContinuing ==
    /\ pc = "intention"
    /\ idx > Len(active_chars)
    /\ round_all_narrations' =
          IF round_narration_parts # <<>>
          THEN Append(round_all_narrations, JoinParts(round_narration_parts))
          ELSE round_all_narrations
    /\ round_num' = round_num + 1
    /\ Goto("round")
    /\ UNCHANGED <<inputVars, fileVars, characters, active_persona, new_messages,
                   narration_so_far_parts, round_narration_parts, active_chars, any_acted,
                   idx, calls, ghostVars>>

\* core.py 348-355: the round is over
RoundEnd ==
    /\ pc = "intention"
    /\ idx > Len(active_chars)
    /\ round_all_narrations' =
          IF round_narration_parts # <<>>
          THEN Append(round_all_narrations, JoinParts(round_narration_parts))
          ELSE round_all_narrations
    /\ IF any_acted
       THEN round_num' = round_num + 1 /\ Goto("round")
       ELSE round_num' = round_num /\ Goto("lorebook")
    /\ UNCHANGED <<inputVars, fileVars, characters, active_persona, new_messages,
                   narration_so_far_parts, round_narration_parts, active_chars, any_acted,
                   idx, calls, ghostVars>>

\* core.py 359-361: the lorebook extractor is called
LorebookCalling ==
    /\ pc = "lorebook"
    /\ lorebook_ext_conn # <<>>
    /\ lorebook_ext_tpl # ""
    /\ round_all_narrations # <<>>

\* an exception of the lorebook phase that is not caught
AfterLorebookPropagates(exception_raised) ==
    IF exception_raised THEN "failed" ELSE "tick"

\* core.py 372-373: whatever the lorebook phase raised, the tick follows
AfterLorebook(exception_raised) == "tick"

LorebookSkip ==
    /\ pc = "lorebook"
    /\ ~LorebookCalling
    /\ Goto("tick")
    /\ UNCHANGED <<inputVars, fileVars, characters, active_persona, new_messages,
                   narration_so_far_parts, loopVars, idx, calls, ghostVars>>

\* core.py 364-365, 372: the template does not render
LorebookTemplateError ==
    /\ LorebookCalling
    /\ Unrenderable(lorebook_ext_tpl)
    /\ raised' = TRUE
    /\ Goto(AfterLorebook(TRUE))
    /\ UNCHANGED <<inputVars, fileVars, characters, active_persona, new_messages,
                   narration_so_far_parts, loopVars, idx, calls, op, payload, before>>

\* core.py 366-370, 372: llm.generate raises
LorebookFails ==
    /\ LorebookCalling
    /\ ~Unrenderable(lorebook_ext_tpl)
    /\ calls' = Append(calls, Call("lorebook_extractor", "", round_num))
    /\ raised' = TRUE
    /\ Goto(AfterLorebook(TRUE))
    /\ UNCHANGED <<inputVars, fileVars, characters, active_persona, new_messages,
                   narration_so_far_parts, loopVars, idx, op, payload, before>>

\* core.py 366-372
LorebookExtract(text) ==
    /\ LorebookCalling
    /\ ~Unrenderable(lorebook_ext_tpl)
    /\ calls' = Append(calls, Call("lorebook_extractor", "", round_num))
    /\ \E r \in {ApplyLorebookExtractor(lorebook, text)} :
          /\ lorebook' = r.lorebook
          /\ raised' = r.raised
          /\ Goto(AfterLorebook(r.raised))
    /\ UNCHANGED <<inputVars, savedChars, localPersonas, globalPersonas, messagesLog,
                   characters, active_persona, new_messages, narration_so_far_parts,
                   loopVars, idx, op, payload, before>>

\* core.py 377-380 with the tick given to the characters of the last round
\* only
TickAllActiveOnly ==
    /\ pc = "tick"
    /\ op' = [name |-> "tick", who |-> 0, characters |-> characters,
              active_persona |-> active_persona, calls |-> calls]
    /\ characters' = [i \in DOMAIN characters |->
                        IF i \in Range(active_chars)
                        THEN TickCharacter(characters[i]) ELSE characters[i]]
    /\ savedChars' = IF characters # <<>> THEN characters' ELSE savedChars
    /\ active_persona' = [i \in DOMAIN active_persona |-> TickCharacter(active_persona[i])]
    /\ localPersonas' = IF active_persona # <<>>
                        THEN SavePersonaLocal(localPersonas, active_persona'[1])
                        ELSE localPersonas
    /\ Goto("append")
    /\ UNCHANGED <<inputVars, globalPersonas, lorebook, messagesLog, new_messages,
                   narration_so_far_parts, loopVars, idx, calls, payload, raised, before>>

\* core.py 377-396: every character and the persona tick and are saved;
\* op keeps what they were and the calls made before
TickAll ==
    /\ pc = "tick"
    /\ op' = [name |-> "tick", who |-> 0, characters |-> characters,
              active_persona |-> active_persona, calls |-> calls]
    /\ characters' = [i \in DOMAIN characters |-> TickCharacter(characters[i])]
    /\ savedChars' = IF characters # <<>> THEN characters' ELSE savedChars
    /\ active_persona' = [i \in DOMAIN active_persona |-> TickCharacter(active_persona[i])]
    /\ localPersonas' = IF active_persona # <<>>
                        THEN SavePersonaLocal(localPersonas, active_persona'[1])
                        ELSE localPersonas
    /\ Goto("append")
    /\ UNCHANGED <<inputVars, globalPersonas, lorebook, messagesLog, new_messages,
                   narration_so_far_parts, loopVars, idx, calls, payload, raised, before>>

\* core.py 398-399 with the turn's messages put in front of the log
AppendMessagesInFront ==
    /\ pc = "append"
    /\ messagesLog' = new_messages \o messagesLog
    /\ Goto("done")
    /\ UNCHANGED <<inputVars, savedChars, localPersonas, globalPersonas, lorebook,
                   characters, active_persona, new_messages, narration_so_far_parts,
                   loopVars, idx, calls, ghostVars>>

\* core.py 398-399
AppendMessages ==
    /\ pc = "append"
    /\ messagesLog' = messagesLog \o new_messages
    /\ Goto("done")
    /\ UNCHANGED <<inputVars, savedChars, localPersonas, globalPersonas, lorebook,
                   characters, active_persona, new_messages, narration_so_far_parts,
                   loopVars, idx, calls, ghostVars>>

Next ==
    \/ RejectUnassigned
    \/ Begin
    \/ SkipNarrator
    \/ NarratorTemplateError
    \/ NarratorFails
    \/ \E text \in NarratorTexts : PlayerResolution(text)
    \/ P1ExtractDone
    \/ P1CharSkip
    \/ P1CharExtractFails
    \/ \E text \in ExtractorTexts : P1CharExtract(text)
    \/ P1PersonaSkip
    \/ P1PersonaExtractFails
    \/ \E text \in ExtractorTexts : P1PersonaExtract(text)
    \/ RoundsOver
    \/ \E rolls \in [DOMAIN characters -> RollValues] : NobodyActive(rolls)
    \/ \E rolls \in [DOMAIN characters -> RollValues] : RoundBegin(rolls)
    \/ IntentionSkip
    \/ IntentionFails
    \/ \E text \in IntentionTexts : CharIntention(text)
    \/ ResolveFails
    \/ \E text \in NarratorTexts : CharResolve(text)
    \/ CharExtractSkip
    \/ CharExtractFails
    \/ \E text \in ExtractorTexts : CharExtract(text)
    \/ RoundPersonaSkip
    \/ RoundPersonaExtractFails
    \/ \E text \in ExtractorTexts : RoundPersonaExtract(text)
    \/ RoundEnd
    \/ LorebookSkip
    \/ LorebookTemplateError
    \/ LorebookFails
    \/ \E text \in LorebookTexts : LorebookExtract(text)
    \/ TickAll
    \/ AppendMessages

Spec == Init /\ [][Next]_vars

(***************************************************************************)
(* DescribeSpec: describe_state applied, any number of times, to a label   *)
(* and a value between -MaxDescribed and MaxDescribed.                      *)
(***************************************************************************)
MaxDescribed == 35

DescribedLabels == {"Angry", "Loves Elena"}

DescribeInit ==
    /\ NoTurn
    /\ characters = <<>>
    /\ savedChars = <<>>
    /\ active_persona = <<>>
    /\ localPersonas = <<>>
    /\ globalPersonas = <<>>
    /\ lorebook = <<>>
    /\ op = [name |-> "init", who |-> 0]
    /\ payload = NoText
    /\ raised = FALSE
    /\ before = Snapshot

\* describe_state(label, value)
Describe(label, value) ==
    /\ op' = [name |-> "describe_state", who |-> 0, label |-> label, value |-> value,
              result |-> DescribeState(label, value), level |-> StateLevel(value)]
    /\ UNCHANGED <<inputVars, fileVars, turnVars, characters, active_persona,
                   payload, raised, before>>

DescribeNext ==
    \E label \in DescribedLabels, value \in (0 - MaxDescribed)..MaxDescribed :
        Describe(label, value)

DescribeSpec == DescribeInit /\ [][DescribeNext]_vars

(***************************************************************************)
(* ActivateSpec: activate_characters applied once to a roster, a narration *)
(* and a player message drawn from bounded sets, with every roll drawn     *)
(* from RollValues.                                                        *)
(***************************************************************************)
ChattinessValues == {0, 50, 100}

ActivateCast ==
    {NewCharacter("Gareth", <<"Gar">>, c) : c \in ChattinessValues}
        \cup {NewCharacter("Elena", <<>>, c) : c \in ChattinessValues}

\* rosters of at most two characters with different names
ActivateRosters ==
    {<<>>} \cup {<<c>> : c \in ActivateCast}
        \cup {<<c, e>> : c \in {x \in ActivateCast : x.name = "Gareth"},
                         e \in {x \in ActivateCast : x.name = "Elena"}}
        \cup {<<e, c>> : c \in {x \in ActivateCast : x.name = "Gareth"},
                         e \in {x \in ActivateCast : x.name = "Elena"}}

ActivateNarrations ==
    {EmptyString,
     <<PlainLine(<<"nothing", "happens">>)>>,
     <<PlainLine(<<"GARETH", "looks", "up">>)>>,
     <<PlainLine(<<"Gar", "nods">>), BlankLine, DialogLine("ELENA", "calm", <<"hello">>)>>}

ActivateInit ==
    /\ config = [story_roles |-> [r \in RoleNames |-> ""], llm_connections |-> <<>>]
    /\ story_roles = [narrator |-> Role("", ""), character_intention |-> Role("", ""),
                      extractor |-> Role("", ""), lorebook_extractor |-> Role("", ""),
                      max_rounds |-> 3, sandbox |-> FALSE]
    /\ adventure = [active_persona |-> ""]
    /\ player_message \in PlayerMessages
    /\ characters \in ActivateRosters
    /\ narration_so_far_parts \in {<<n>> : n \in ActivateNarrations}
    /\ savedChars = characters
    /\ active_persona = <<>>
    /\ localPersonas = <<>>
    /\ globalPersonas = <<>>
    /\ lorebook = <<>>
    /\ messagesLog = <<>>
    /\ new_messages = <<>>
    /\ round_all_narrations = <<>>
    /\ round_narration_parts = <<>>
    /\ round_num = 0
    /\ active_chars = <<>>
    /\ idx = 0
    /\ any_acted = FALSE
    /\ pc = "idle"
    /\ error = ""
    /\ calls = <<>>
    /\ op = [name |-> "init", who |-> 0]
    /\ payload = NoText
    /\ raised = FALSE
    /\ before = Snapshot

\* active_chars = activate_characters(characters, narration_so_far,
\* player_message), the i-th random.randint(0, 99) giving rolls[i]
Activate(rolls) ==
    /\ op.name = "init"
    /\ active_chars' = ActivateCharacters(characters, narration_so_far, player_message,
                                          rolls)
    /\ op' = [name |-> "activate_characters", who |-> 0, rolls |-> rolls]
    /\ UNCHANGED <<inputVars, fileVars, characters, active_persona, new_messages,
                   narration_so_far_parts, round_all_narrations, round_narration_parts,
                   round_num, idx, any_acted, pc, error, calls, payload, raised, before>>

ActivateNext == \E rolls \in [DOMAIN characters -> RollValues] : Activate(rolls)

ActivateSpec == ActivateInit /\ [][ActivateNext]_vars

(***************************************************************************)
(* ResolveSpec: _resolve_connection applied once to a configuration, the   *)
(* adventure's roles and a role name drawn from bounded sets: connections  *)
(* that exist, that share a name, names that match none, roles and         *)
(* mappings that are missing.                                              *)
(***************************************************************************)
Connection(name, provider_url) == [name |-> name, provider_url |-> provider_url]

ConnectionLists ==
    {<<>>,
     <<Connection("llm", "one")>>,
     <<Connection("llm", "one"), Connection("alt", "two")>>,
     <<Connection("alt", "two"), Connection("llm", "one"), Connection("llm", "three")>>}

ConnectionNames == {"", "llm", "alt", "ghost"}

\* functions from some of the role names to values
Partial(names, values) == UNION {[d -> values] : d \in SUBSET names}

ResolvedRoles == {"narrator", "extractor"}

ResolveInit ==
    /\ \E conns \in ConnectionLists, global \in Partial(ResolvedRoles, ConnectionNames) :
          config = [story_roles |-> global, llm_connections |-> conns]
    /\ \E local \in Partial(ResolvedRoles, ConnectionNames) :
          story_roles = [r \in DOMAIN local |-> Role(local[r], "ok")]
    /\ adventure = [active_persona |-> ""]
    /\ player_message = <<>>
    /\ characters = <<>>
    /\ savedChars = <<>>
    /\ active_persona = <<>>
    /\ localPersonas = <<>>
    /\ globalPersonas = <<>>
    /\ lorebook = <<>>
    /\ messagesLog = <<>>
    /\ new_messages = <<>>
    /\ narration_so_far_parts = <<>>
    /\ round_all_narrations = <<>>
    /\ round_narration_parts = <<>>
    /\ round_num = 0
    /\ active_chars = <<>>
    /\ idx = 0
    /\ any_acted = FALSE
    /\ pc = "idle"
    /\ error = ""
    /\ calls = <<>>
    /\ op = [name |-> "init", who |-> 0]
    /\ payload = NoText
    /\ raised = FALSE
    /\ before = Snapshot

\* _resolve_connection(config, story_roles, role_name)
Resolve(role_name) ==
    /\ op.name = "init"
    /\ op' = [name |-> "resolve_connection", who |-> 0, role |-> role_name,
              result |-> ResolveConnection(config, story_roles, role_name)]
    /\ UNCHANGED <<inputVars, fileVars, turnVars, characters, active_persona,
                   payload, raised, before>>

ResolveNext == \E role_name \in ResolvedRoles : Resolve(role_name)

ResolveSpec == ResolveInit /\ [][ResolveNext]_vars

(***************************************************************************)
(* ParseSpec: parse_narrator_output and segments_to_text applied once to a *)
(* narrator text of at most MaxLines lines and the known names of a        *)
(* roster.                                                                 *)
(***************************************************************************)
MaxLines == 3

ParsedLines ==
    {BlankLine,
     PlainLine(<<"Aldric", "waves">>),
     DialogLine("ELENA", "calm", <<"hello">>),
     DialogLine("Elena", "sad", <<"no">>),
     DialogLine("Mira", "angry", <<"mine">>)}

\* the strings of one to MaxLines lines
ParsedTexts == SeqsUpTo(ParsedLines, MaxLines) \ {<<>>}

\* nobody; Elena; Gareth and an Elena whose nickname is her name in lower
\* case
ParsedRosters ==
    {<<>>,
     <<NewCharacter("Elena", <<>>, 50)>>,
     <<NewCharacter("Gareth", <<"Gar">>, 50), NewCharacter("Elena", <<"elena">>, 50)>>}

ParseInit ==
    /\ config = [story_roles |-> [r \in RoleNames |-> ""], llm_connections |-> <<>>]
    /\ story_roles = [narrator |-> Role("", ""), character_intention |-> Role("", ""),
                      extractor |-> Role("", ""), lorebook_extractor |-> Role("", ""),
                      max_rounds |-> 3, sandbox |-> FALSE]
    /\ adventure = [active_persona |-> ""]
    /\ player_message = <<>>
    /\ characters \in ParsedRosters
    /\ narration_so_far_parts \in {<<text>> : text \in ParsedTexts}
    /\ savedChars = characters
    /\ active_persona = <<>>
    /\ localPersonas = <<>>
    /\ globalPersonas = <<>>
    /\ lorebook = <<>>
    /\ messagesLog = <<>>
    /\ new_messages = <<>>
    /\ round_all_narrations = <<>>
    /\ round_narration_parts = <<>>
    /\ round_num = 0
    /\ active_chars = <<>>
    /\ idx = 0
    /\ any_acted = FALSE
    /\ pc = "idle"
    /\ error = ""
    /\ calls = <<>>
    /\ op = [name |-> "init", who |-> 0]
    /\ payload = NoText
    /\ raised = FALSE
    /\ before = Snapshot

\* segments = parse_narrator_output(text, known_names);
\* segments_to_text(segments)
Parse ==
    /\ op.name = "init"
    /\ \E segments \in {ParseNarratorOutput(narration_so_far_parts[1], known_names)} :
          op' = [name |-> "parse_narrator_output", who |-> 0, segments |-> segments,
                 text |-> SegmentsToText(segments)]
    /\ UNCHANGED <<inputVars, fileVars, turnVars, characters, active_persona,
                   payload, raised, before>>

ParseNext == Parse

ParseSpec == ParseInit /\ [][ParseNext]_vars

(***************************************************************************)
(* HistorySpec: the life of one character that starts with no states:      *)
(* extractor applications (one update per output) and end-of-turn ticks in *)
(* any order, up to MaxHistory operations.                                 *)
(***************************************************************************)
MaxHistory == 5

\* the updates that the extractor's outputs of a history hold
HistoryUpdates ==
    {Update(JStr("temporal"), JStr("Angry"), JNum(22)),
     Update(JStr("temporal"), JStr("alert"), JNum(2)),
     Update(JStr("persistent"), JStr("angry"), JNum(5)),
     Update(JStr("persistent"), JStr("brave"), JNum(99)),
     Update(JStr("core"), JStr("Loyal"), JNum(28))}

HistoryInit ==
    /\ NoTurn
    /\ characters = <<NewCharacter("Gareth", <<"Gar">>, 50)>>
    /\ savedChars = characters
    /\ active_persona = <<>>
    /\ localPersonas = <<>>
    /\ globalPersonas = <<>>
    /\ lorebook = <<>>
    /\ op = [name |-> "init", who |-> 0, step |-> 0]
    /\ payload = NoText
    /\ raised = FALSE
    /\ before = Snapshot

\* apply_character_extractor on the character, with an output of one update
HistoryExtract ==
    /\ op.step < MaxHistory
    /\ before' = Snapshot
    /\ \E update \in HistoryUpdates :
          \E text \in {Text("bare", JObj([state_changes |-> JList(<<update>>)]))} :
             /\ \E r \in {ApplyCharacterExtractor(characters, 1, text, savedChars)} :
                   /\ characters' = r.characters
                   /\ savedChars' = r.saved
                   /\ raised' = r.raised
             /\ payload' = text
    /\ op' = [name |-> "character_extractor", who |-> 1, step |-> op.step + 1]
    /\ UNCHANGED <<inputVars, turnVars, active_persona, localPersonas, globalPersonas,
                   lorebook, messagesLog>>

\* core.py 377-380: the end-of-turn tick of the roster, saved
HistoryTick ==
    /\ op.step < MaxHistory
    /\ before' = Snapshot
    /\ characters' = [i \in DOMAIN characters |-> TickCharacter(characters[i])]
    /\ savedChars' = characters'
    /\ op' = [name |-> "tick", who |-> 1, step |-> op.step + 1]
    /\ UNCHANGED <<inputVars, turnVars, active_persona, localPersonas, globalPersonas,
                   lorebook, messagesLog, payload, raised>>

HistoryNext == HistoryExtract \/ HistoryTick

HistorySpec == HistoryInit /\ [][HistoryNext]_vars

(***************************************************************************)
(* Claims about the tick (C8, C9, C10), checked under TickSpec.  The       *)
(* numbers below are the claims' own, not the tables of the code.          *)
(***************************************************************************)
StatedDelta == [core |-> 2, persistent |-> 1, temporal |-> -1]

StatedCeiling == [core |-> <<30>>, persistent |-> <<20>>, temporal |-> <<>>]

\* the value a state of a category is said to have after one tick
StatedValue(category, value) ==
    LET v == value + StatedDelta[category]
        top == StatedCeiling[category]
    IN IF top # <<>> THEN Min(v, top[1]) ELSE v

RECURSIVE Survivors(_, _)
\* the states of a list that are said to survive one tick, with their new
\* values, in the order of the list
Survivors(category, list) ==
    IF list = <<>> THEN <<>>
    ELSE LET v == StatedValue(category, Head(list).value)
             rest == Survivors(category, Tail(list))
         IN IF v <= 0 THEN rest
            ELSE <<[label |-> Head(list).label, value |-> v]>> \o rest

RECURSIVE IsSubseq(_, _)
\* a is b with some elements left out
IsSubseq(a, b) ==
    IF a = <<>> THEN TRUE
    ELSE IF b = <<>> THEN FALSE
    ELSE IF Head(a) = Head(b) THEN IsSubseq(Tail(a), Tail(b))
    ELSE IsSubseq(a, Tail(b))

\* the states of the ticked character before and after the tick
Was == before.characters[op.who].states

Now == characters[op.who].states

\* what the tick appended to persistent
Promoted ==
    SubSeq(Now.persistent, Len(Survivors("persistent", Was.persistent)) + 1,
           Len(Now.persistent))

\* C8: one tick changes every state's value by its category's delta (core
\* +2, persistent +1, temporal -1), caps it at the category's ceiling (core
\* 30, persistent 20), and removes the state exactly when the result is <= 0;
\* every other state stays in the character (a temporal one in temporal or,
\* promoted, at the end of persistent) and the survivors of a category keep
\* their relative order.
C8_TickRule ==
    op.name = "tick" =>
        LET P == Survivors("persistent", Was.persistent)
            T == Survivors("temporal", Was.temporal)
        IN /\ Now.core = Survivors("core", Was.core)
           /\ Len(Now.persistent) >= Len(P)
           /\ SubSeq(Now.persistent, 1, Len(P)) = P
           /\ IsSubseq(Now.temporal, T)
           /\ IsSubseq(Promoted, T)
           /\ \A s \in Range(T) : s \in Range(Now.temporal) \/ s \in Range(Promoted)
           /\ Len(Now.temporal) + Len(Promoted) = Len(T)

\* a tick that capped a core value, removed a temporal state and kept another
C8_Witness ==
    /\ op.name = "tick"
    /\ Len(Was.core) = 1 /\ Was.core[1].value = 29
    /\ Len(Now.core) = 1 /\ Now.core[1].value = 30
    /\ Len(Was.temporal) = 2 /\ Was.temporal[1].value = 1
    /\ Len(Now.temporal) = 1 /\ Now.temporal[1].value = 19

\* the labels of all states of a character
LabelsOf(states) ==
    UNION {{states[Categories[c]][i].label : i \in DOMAIN states[Categories[c]]} :
              c \in DOMAIN Categories}

\* C9 as stated: a tick removes every state that has value 0, whatever its
\* category, and the state is in no category afterwards.
C9_ZeroRemovedAnyCategory ==
    op.name = "tick" =>
        \A c \in DOMAIN Categories : \A i \in DOMAIN Was[Categories[c]] :
            Was[Categories[c]][i].value = 0 =>
                Was[Categories[c]][i].label \notin LabelsOf(Now)

\* C9, amended: a tick removes every temporal state that has value 0, and the
\* state is in no category afterwards; a core or persistent state with value
\* 0 is kept, with value 2 or 1.
C9_ZeroTemporalRemoved ==
    op.name = "tick" =>
        /\ \A i \in DOMAIN Was.temporal :
              Was.temporal[i].value = 0 => Was.temporal[i].label \notin LabelsOf(Now)
        /\ \A i \in DOMAIN Was.core :
              Was.core[i].value = 0 =>
                  [label |-> Was.core[i].label, value |-> 2] \in Range(Now.core)
        /\ \A i \in DOMAIN Was.persistent :
              Was.persistent[i].value = 0 =>
                  [label |-> Was.persistent[i].label, value |-> 1] \in Range(Now.persistent)

\* a tick of a character that held a temporal, a core and a persistent state
\* with value 0
C9_Witness ==
    /\ op.name = "tick"
    /\ \E i \in DOMAIN Was.temporal : Was.temporal[i].value = 0
    /\ \E i \in DOMAIN Was.core : Was.core[i].value = 0
    /\ \E i \in DOMAIN Was.persistent : Was.persistent[i].value = 0

\* C10: in a tick, a temporal state whose value after decay is >= 20 moves to
\* persistent if and only if persistent holds fewer than 10 states at that
\* moment; a promoted state is no longer in temporal, a state that is not
\* promoted stays in temporal, and promotion never makes persistent longer
\* than 10 states.
C10_Promotion ==
    op.name = "tick" =>
        LET P == Survivors("persistent", Was.persistent)
            T == Survivors("temporal", Was.temporal)
            \* the length of persistent when the i-th survivor is looked at
            LenAt(i) == Len(P) + Cardinality({k \in 1..(i - 1) : T[k] \in Range(Promoted)})
        IN /\ Len(Now.persistent) >= Len(P)
           /\ SubSeq(Now.persistent, 1, Len(P)) = P
           /\ \A i \in DOMAIN T :
                 /\ T[i] \in Range(Promoted) <=> (T[i].value >= 20 /\ LenAt(i) < 10)
                 /\ T[i] \in Range(Promoted) => T[i] \notin Range(Now.temporal)
                 /\ T[i] \notin Range(Promoted) => T[i] \in Range(Now.temporal)
           /\ Range(Promoted) \subseteq Range(T)
           /\ Promoted # <<>> => Len(Now.persistent) <= 10

\* a tick that promoted one state into the last free slot and left another
\* state of value >= 20 in temporal
C10_Witness ==
    /\ op.name = "tick"
    /\ Promoted # <<>>
    /\ Len(Now.persistent) = 10
    /\ \E i \in DOMAIN Now.temporal : Now.temporal[i].value >= 20

(***************************************************************************)
(* Claims about the extractor appliers (C5, C6), checked under ExtractSpec.*)
(***************************************************************************)
Extractors == {"character_extractor", "persona_extractor", "lorebook_extractor"}

\* the text is no JSON, or JSON that is no object
Undecodable(text) == text.wrap = "prose" \/ text.json.j # "obj"

\* C6: if the output cannot be decoded as JSON or decodes to something that
\* is not an object, the three appliers change nothing, in memory or in the
\* files, and raise no error.
C6_UndecodableChangesNothing ==
    (op.name \in Extractors /\ Undecodable(payload)) =>
        (Snapshot = before /\ ~raised)

\* the character applier was given prose around an object that holds an
\* applicable item, for a character that has states
C6_Witness ==
    /\ op.name = "character_extractor"
    /\ Undecodable(payload)
    /\ payload.wrap = "prose"
    /\ payload.json.j = "obj"
    /\ "state_changes" \in DOMAIN payload.json.fields
    /\ payload.json.fields["state_changes"].j = "list"
    /\ \E i \in DOMAIN payload.json.fields["state_changes"].items :
          payload.json.fields["state_changes"].items[i] \in GoodItems
    /\ before.characters[op.who].states # EmptyStates

\* an item of state_changes of a shape the appliers do not expect: not an
\* object, an unknown category, an empty label or a value that is no number
Mismatched(item) ==
    \/ item.j # "obj"
    \/ /\ "updates" \notin DOMAIN item.fields
       /\ \/ Get(item, "category", JNull) \notin
                {JStr("core"), JStr("persistent"), JStr("temporal")}
          \/ Get(item, "label", JStr("")) = JStr("")
          \/ Get(item, "value", JNum(0)).j \notin {"num", "bool", "float"}

\* the text with the mismatched items of its state_changes left out
WithoutMismatched(text) ==
    Text(text.wrap,
         JObj([state_changes |->
                  JList(SelectSeq(text.json.fields["state_changes"].items,
                                  LAMBDA item : ~Mismatched(item)))]))

HasStateChanges(text) ==
    /\ ~Undecodable(text)
    /\ "state_changes" \in DOMAIN text.json.fields
    /\ text.json.fields["state_changes"].j = "list"

\* C5: when the output is valid JSON with items of state_changes that are
\* shape-mismatched, the offending items are skipped, the other items are
\* applied as if the offending ones were not there, and no error escapes
\* apply_character_extractor or apply_persona_extractor.
C5_MismatchedItemsSkipped ==
    /\ (op.name = "character_extractor" /\ HasStateChanges(payload)) =>
          /\ ~raised
          /\ characters =
                ApplyCharacterExtractor(before.characters, op.who,
                                        WithoutMismatched(payload),
                                        before.savedChars).characters
    /\ (op.name = "persona_extractor" /\ HasStateChanges(payload)) =>
          /\ ~raised
          /\ active_persona[1] =
                ApplyPersonaExtractor(before.active_persona[1],
                                      WithoutMismatched(payload),
                                      before.localPersonas).persona

\* what holds of the code: an item that is an object of the wrong shape is
\* skipped and the other items are applied
C5_ObjectItemsSkipped ==
    (/\ op.name \in {"character_extractor", "persona_extractor"}
     /\ HasStateChanges(payload)
     /\ \A i \in DOMAIN payload.json.fields["state_changes"].items :
           payload.json.fields["state_changes"].items[i].j = "obj") =>
        C5_MismatchedItemsSkipped

(***************************************************************************)
(* Claims about the turn (C1, C2, C3, C4, C7), checked under Spec.         *)
(***************************************************************************)
\* the model calls made in the rounds, and those to the lorebook extractor
RoundCalls ==
    LET inRound(c) == c.round >= 1 /\ c.role # "lorebook_extractor"
    IN  SelectSeq(calls, inRound)

LorebookCalls ==
    LET toLorebook(c) == c.role = "lorebook_extractor"
    IN  SelectSeq(calls, toLorebook)

IsPrefix(s, t) == Len(s) <= Len(t) /\ s = SubSeq(t, 1, Len(s))

Ended == pc \in {"done", "failed"}

AllAssigned ==
    /\ narrator_conn # <<>>
    /\ intention_conn # <<>>
    /\ extractor_conn # <<>>
    /\ lorebook_ext_conn # <<>>

\* every character of the roster is active in every round, whatever is
\* rolled
AlwaysActive ==
    \A i \in DOMAIN characters :
        characters[i].chattiness = 100 \/ Named(characters[i], player_message)

NarratorCallFailed ==
    /\ pc = "failed"
    /\ error = "HTTPException"
    /\ calls[Len(calls)].role = "narrator"

\* the three calls the claim states for the i-th character in round r
StatedCalls(r, i) ==
    <<Call("character_intention", characters[i].name, r),
      Call("narrator", characters[i].name, r),
      Call("extractor", characters[i].name, r)>>

\* the extractor call about the persona, made when the resolution of the
\* i-th character in round r (the part after the player's resolution and
\* the resolutions before it) names the persona
PersonaCall(r, i) ==
    LET k == 1 + (r - 1) * Len(characters) + i
    IN  IF /\ active_persona # <<>>
           /\ k <= Len(narration_so_far_parts)
           /\ Named(active_persona[1], narration_so_far_parts[k])
        THEN <<Call("extractor", active_persona[1].name, r)>>
        ELSE <<>>

RoundOf(k) == ((k - 1) \div Len(characters)) + 1

PlaceOf(k) == ((k - 1) % Len(characters)) + 1

StatedRounds ==
    ConcatLines([k \in 1..(max_rounds * Len(characters)) |->
                    StatedCalls(RoundOf(k), PlaceOf(k))])

RoundsWithPersona ==
    ConcatLines([k \in 1..(max_rounds * Len(characters)) |->
                    StatedCalls(RoundOf(k), PlaceOf(k))
                        \o PersonaCall(RoundOf(k), PlaceOf(k))])

OneLorebookCallLast ==
    /\ Len(LorebookCalls) = 1
    /\ calls[Len(calls)].role = "lorebook_extractor"

C2_TurnReturnsWithinMaxRounds ==
    /\ \A i \in DOMAIN calls : calls[i].round <= max_rounds
    /\ pc = "failed" => error \in {"ValueError", "HTTPException"}

\* the part of C2 about the number of rounds
C2_AtMostMaxRounds ==
    /\ round_num <= max_rounds
    /\ \A i \in DOMAIN calls : calls[i].round <= max_rounds

\* the narrator role resolves to no connection: no name in the adventure's
\* role nor in the global setting, or a name that no connection has
NarratorUnresolved ==
    LET name == IF story_roles["narrator"].connection # ""
                THEN story_roles["narrator"].connection
                ELSE config.story_roles["narrator"]
    IN  \/ name = ""
        \/ \A i \in DOMAIN config.llm_connections :
              config.llm_connections[i].name # name

\* C3: if the narrator role resolves to no connection, the turn fails with
\* the configuration error before any model call; nothing is appended to
\* the message log and no character, persona or lorebook state changes, in
\* memory or in the files.
C3_NarratorUnassignedFatal ==
    NarratorUnresolved =>
        /\ pc \in {"start", "failed"}
        /\ pc = "failed" => error = "ValueError"
        /\ calls = <<>>
        /\ Snapshot = before

C3_Witness ==
    /\ NarratorUnresolved
    /\ pc = "failed"
    /\ before.characters # <<>>
    /\ story_roles["narrator"].connection = "ghost"

\* C4: a model call for the intention or the extractor role that fails
\* with a transport error does not end the turn.
C4_FailedCallDoesNotEndTurn ==
    ~ ( /\ pc = "failed"
        /\ error = "HTTPException"
        /\ calls[Len(calls)].role \in {"character_intention", "extractor"} )

\* C7: an exception raised in the lorebook phase (rendering, the model
\* call, applying the answer) is caught: the turn goes on to the tick, every
\* roster character and the active persona have ticked and are saved, the
\* turn's messages are appended to the log and the turn returns.
C7_LorebookFailureContained ==
    raised =>
        /\ pc \in {"tick", "append", "done"}
        /\ pc \in {"append", "done"} =>
              /\ op.name = "tick"
              /\ characters = [i \in DOMAIN op.characters |->
                                  TickCharacter(op.characters[i])]
              /\ characters # <<>> => savedChars = characters
              /\ active_persona = [i \in DOMAIN op.active_persona |->
                                      TickCharacter(op.active_persona[i])]
              /\ active_persona # <<>> =>
                    \E i \in DOMAIN localPersonas : localPersonas[i] = active_persona[1]
        /\ pc = "done" => messagesLog = before.messagesLog \o new_messages

C7_Witness ==
    /\ raised
    /\ pc = "done"
    /\ characters # <<>>
    /\ active_persona # <<>>
    /\ characters # op.characters
    /\ Len(new_messages) > 1

(***************************************************************************)
(* Claims about the overflow flag (C11), checked under TickSpec.           *)
(***************************************************************************)
\* some list is longer than the limit the claim states for its category
StatedOverflow(states) ==
    \/ Len(states.core) > 3
    \/ Len(states.persistent) > 10
    \/ Len(states.temporal) > 10

StatedDescription(label, value) ==
    IF value <= 10 THEN <<"feels a subconscious nudge related to ", label>>
    ELSE IF value <= 15 THEN <<label, " is manifest in their body language">>
    ELSE IF value <= 20 THEN <<label, " dominates their current priorities">>
    ELSE <<label, " is a core truth they would die for">>

\* C12: for every integer value v, describe_state(label, v) is None if and
\* only if v <= 5; every v >= 6 lies in exactly one of the tiers [6,10],
\* [11,15], [16,20], [21, unbounded) and gets that tier's description with
\* the label filled in.
C12_SilentIffAtMostFive ==
    op.name = "describe_state" =>
        /\ op.result = <<>> <=> op.value <= 5
        /\ op.value >= 6 => op.result = <<StatedDescription(op.label, op.value)>>

\* the same for the values up to 30, the top of the table's last level
C12_TiersUpToThirty ==
    (op.name = "describe_state" /\ op.value <= 30) =>
        /\ op.result = <<>> <=> op.value <= 5
        /\ op.value >= 6 => op.result = <<StatedDescription(op.label, op.value)>>

(***************************************************************************)
(* Claims about the values the appliers write (C13), checked under         *)
(* ExtractSpec.                                                            *)
(***************************************************************************)
\* the states of the character or persona the applier was given, before
\* and after
TargetWas ==
    IF op.name = "character_extractor" THEN before.characters[op.who].states
    ELSE before.active_persona[1].states

TargetNow ==
    IF op.name = "character_extractor" THEN characters[op.who].states
    ELSE active_persona[1].states

\* the places of a category's list that the applier wrote
Written(category) ==
    {i \in DOMAIN TargetNow[category] :
        \/ i > Len(TargetWas[category])
        \/ TargetNow[category][i] # TargetWas[category][i]}

\* the integer the claim states for a reported value
StatedInt(v) ==
    CASE v.j = "num" -> v.n
      [] v.j = "bool" -> IF v.b THEN 1 ELSE 0
      [] v.j = "float" -> CHOOSE n \in -1000..1000 :
                             \/ v.tenths >= 0 /\ 10 * n <= v.tenths /\ v.tenths < 10 * (n + 1)
                             \/ v.tenths < 0 /\ 10 * (n - 1) < v.tenths /\ v.tenths <= 10 * n

\* the last item of state_changes, when it is a plain update of a temporal
\* state
LastItem == payload.json.fields["state_changes"].items[
                Len(payload.json.fields["state_changes"].items)]

LastIsTemporal ==
    /\ HasStateChanges(payload)
    /\ payload.json.fields["state_changes"].items # <<>>
    /\ ~Mismatched(LastItem)
    /\ "updates" \notin DOMAIN LastItem.fields
    /\ LastItem.fields["category"] = JStr("temporal")

\* C13: after an extractor update is applied to a character or a persona,
\* the state it wrote has an integer value that is no greater than its
\* category's ceiling (30 for core, 20 for persistent); a temporal value is
\* stored as reported, without an upper clamp.
C13_WrittenValuesClamped ==
    op.name \in {"character_extractor", "persona_extractor"} =>
        /\ \A i \in Written("core") :
              TargetNow.core[i].value \in Int /\ TargetNow.core[i].value <= 30
        /\ \A i \in Written("persistent") :
              TargetNow.persistent[i].value \in Int /\ TargetNow.persistent[i].value <= 20
        /\ \A i \in Written("temporal") : TargetNow.temporal[i].value \in Int
        /\ (LastIsTemporal /\ ~raised) =>
              \E i \in DOMAIN TargetNow.temporal :
                 /\ Lower(TargetNow.temporal[i].label) = Lower(LastItem.fields["label"].s)
                 /\ TargetNow.temporal[i].value = StatedInt(LastItem.fields["value"])

\* an applier was given a persistent state reported as 25.9 and stored it
\* as 20, and a temporal state reported as 99.5 and stored it as 99
C13_Witness ==
    /\ op.name \in {"character_extractor", "persona_extractor"}
    /\ ~raised
    /\ \E i \in Written("persistent") : TargetNow.persistent[i].value = 20
    /\ \E i \in Written("temporal") : TargetNow.temporal[i].value = 99
    /\ \E k \in DOMAIN payload.json.fields["state_changes"].items :
          payload.json.fields["state_changes"].items[k].fields["value"] = JFloat(259)

\* the titles of a lorebook, lower-cased, in order
LowerTitles(book) == [i \in DOMAIN book |-> Lower(book[i].title)]

UniqueTitles(book) ==
    \A i, k \in DOMAIN book : LowerTitles(book)[i] = LowerTitles(book)[k] => i = k

\* the titles the payload reports, when it is an object with a list of
\* lorebook_entries
ReportedTitles ==
    IF payload.json.j = "obj" /\ "lorebook_entries" \in DOMAIN payload.json.fields
       /\ payload.json.fields["lorebook_entries"].j = "list"
    THEN LET items == payload.json.fields["lorebook_entries"].items
         IN {items[k].fields["title"].s :
                k \in {n \in DOMAIN items :
                          /\ items[n].j = "obj"
                          /\ "title" \in DOMAIN items[n].fields
                          /\ items[n].fields["title"].j = "str"}}
    ELSE {}

\* C14: apply_lorebook_extractor leaves the entries the lorebook had, in
\* place and unchanged; every entry it adds has a non-empty title that the
\* payload reports and that no earlier entry of the lorebook, old or added
\* from the same payload, has ignoring case; so the titles of the lorebook,
\* unique ignoring case at the start, are unique after every extraction.
C14_LorebookOnlyGrowsByNewTitles ==
    /\ UniqueTitles(lorebook)
    /\ op.name = "lorebook_extractor" =>
          /\ IsPrefix(before.lorebook, lorebook)
          /\ \A i \in DOMAIN lorebook :
                i > Len(before.lorebook) =>
                   /\ lorebook[i].title # ""
                   /\ lorebook[i].title \in ReportedTitles
                   /\ \A k \in 1..(i - 1) :
                         Lower(lorebook[k].title) # Lower(lorebook[i].title)

\* a second extraction on a lorebook of two entries, one of them added by
\* the first: the payload reports "CAVE" and "Sword" again and adds nothing
C14_Witness ==
    /\ op = [name |-> "lorebook_extractor", who |-> 1]
    /\ ~raised
    /\ Len(before.lorebook) = 2
    /\ before.lorebook[1] = OldEntry
    /\ before.lorebook[2].title = "Sword"
    /\ ReportedTitles = {"CAVE", "Sword"}
    /\ lorebook = before.lorebook

\* an extraction added a new title behind the old entry and skipped the
\* reported title that the lorebook already had in another case
C14_Added ==
    /\ op.name = "lorebook_extractor"
    /\ before.lorebook = <<OldEntry>>
    /\ ReportedTitles = {"CAVE", "Sword"}
    /\ Len(lorebook) = 2
    /\ lorebook[2].title = "Sword"

\* the name or a nickname of the i-th character occurs, ignoring case, in
\* the narration or the player's message
Mentioned(i) ==
    \E name \in {characters[i].name} \cup Range(characters[i].nicknames) :
        \E text \in {narration_so_far, player_message} : Occurs(name, text)

\* C15: activate_characters returns, in roster order and once each, exactly
\* the characters that are mentioned in the narration or the player's
\* message or whose roll is below their chattiness; an unmentioned character
\* of chattiness 0 is not returned, a character of chattiness 100 is.
C15_ActiveAreMentionedOrRolled ==
    op.name = "activate_characters" =>
       /\ \A a, b \in DOMAIN active_chars : a < b => active_chars[a] < active_chars[b]
       /\ \A i \in DOMAIN characters :
             i \in Range(active_chars)
                <=> (Mentioned(i) \/ op.rolls[i] < characters[i].chattiness)
       /\ \A i \in DOMAIN characters :
             /\ characters[i].chattiness = 0 /\ ~Mentioned(i) => i \notin Range(active_chars)
             /\ characters[i].chattiness = 100 => i \in Range(active_chars)

\* Gareth, chattiness 50 and not mentioned, rolled 50 and stays out; Elena,
\* chattiness 0, is asked by the player and is the one active character
C15_Witness ==
    /\ op.name = "activate_characters"
    /\ Len(characters) = 2
    /\ characters[1].name = "Gareth" /\ characters[1].chattiness = 50
    /\ op.rolls[1] = 50 /\ ~Mentioned(1)
    /\ characters[2].chattiness = 0 /\ Mentioned(2) /\ op.rolls[2] = 99
    /\ active_chars = <<2>>

\* the entries of a persona list that do not have the active persona's slug
OtherPersonas(personas) ==
    LET other(p) == p.slug # adventure.active_persona
    IN  SelectSeq(personas, other)

\* the places of the active persona's slug in the adventure's personas.json
OwnCopies == {i \in DOMAIN localPersonas : localPersonas[i].slug = adventure.active_persona}

\* the turn has written the adventure's personas.json, or has returned with
\* an active persona
PersonaWritten ==
    \/ localPersonas # before.localPersonas
    \/ pc = "done" /\ active_persona # <<>>

\* C16: a turn never changes the global personas.json and never changes
\* another persona's entry of the adventure's personas.json; once the turn
\* has written the persona (persona extractor or end-of-turn tick) the
\* adventure's personas.json holds exactly one entry with the persona's
\* slug, and unless the turn failed it is the persona as the turn holds it.
C16_PersonaCopyOnWrite ==
    /\ globalPersonas = before.globalPersonas
    /\ OtherPersonas(localPersonas) = OtherPersonas(before.localPersonas)
    /\ PersonaWritten =>
          /\ active_persona # <<>>
          /\ Cardinality(OwnCopies) = 1
          /\ pc # "failed" => \A i \in OwnCopies : localPersonas[i] = active_persona[1]

\* the persona came from the global list, the adventure had no copy; the
\* persona extractor set Angry and the tick lowered it: the turn returned
\* with the copy created and the global entry as it was
C16_Witness ==
    /\ pc = "done"
    /\ active_persona # <<>>
    /\ before.localPersonas = <<>>
    /\ localPersonas = active_persona
    /\ active_persona[1].source = "global"
    /\ \E n \in DOMAIN active_persona[1].states.temporal :
          active_persona[1].states.temporal[n] = [label |-> "Angry", value |-> 6]
    /\ \E k \in DOMAIN calls : calls[k] = Call("extractor", "Aldric", 0)

\* the adventure had a copy behind another persona: the turn replaced it in
\* place
C16_Replaced ==
    /\ pc = "done"
    /\ Len(before.localPersonas) = 2
    /\ localPersonas[1] = before.localPersonas[1]
    /\ localPersonas[2] = active_persona[1]
    /\ localPersonas[2] # before.localPersonas[2]

\* the places of the player's message and of the intentions in the turn's
\* messages
Marks ==
    LET mark(i) == new_messages[i].role \in {"player", "intention"}
    IN  SelectSeq([i \in DOMAIN new_messages |-> i], mark)

\* the messages between the k-th mark and the next
BlockAfter(k) ==
    SubSeq(new_messages, Marks[k] + 1,
           (IF k < Len(Marks) THEN Marks[k + 1] ELSE Len(new_messages) + 1) - 1)

\* the lines a narrator or dialog message shows
LinesOf(m) ==
    IF m.role = "dialog" THEN <<DialogLine(m.character, m.emotion, m.text)>> ELSE m.text

TextOf(block) == ConcatLines([i \in DOMAIN block |-> LinesOf(block[i])])

\* the intention calls of the turn, in the order they were made
IntentionCalls ==
    LET intends(c) == c.role = "character_intention"
    IN  SelectSeq(calls, intends)

RosterPlace(name) == CHOOSE i \in DOMAIN characters : characters[i].name = name

\* the k-th block holds what the k-th narrator output produced: nothing
\* when there was no output or a blank one, else messages that show the
\* output's text
BlockIsOutput(k) ==
    IF narration_so_far_parts = <<>> \/ narration_so_far_parts[k] = EmptyString
    THEN BlockAfter(k) = <<>>
    ELSE BlockAfter(k) # <<>> /\ TextOf(BlockAfter(k)) = narration_so_far_parts[k]

C18_IntentionOnlyInSandbox ==
    (\/ \E i \in DOMAIN new_messages : new_messages[i].role = "intention"
     \/ \E i \in DOMAIN messagesLog : messagesLog[i].role = "intention")
        => story_roles.sandbox

\* the role has no assigned connection: the name its own connection field
\* gives or, that being empty, the global mapping gives names no
\* connection of the configuration
Unassigned(role) ==
    LET name == IF story_roles[role].connection # ""
                THEN story_roles[role].connection
                ELSE config.story_roles[role]
    IN  \A i \in DOMAIN config.llm_connections : config.llm_connections[i].name # name

CallsOf(role) == {k \in DOMAIN calls : calls[k].role = role}

\* the roster as the turn found it, and as the tick leaves it
Ticked == [i \in DOMAIN before.characters |-> TickCharacter(before.characters[i])]

\* C19: a turn whose extractor has no connection makes no extractor call and
\* its characters, in memory and in characters.json, are as the turn found
\* them until the tick and as the tick of those afterwards; a turn whose
\* character_intention has no connection runs no round: no intention call,
\* no narrator call after the player's resolution, no intention message; a
\* turn whose lorebook_extractor has no connection makes no lorebook call
\* and leaves the lorebook; and when such a turn has failed, it failed in a
\* model call of an assigned role, never in the skipped phase, and until it
\* has returned or failed it always has a next step.
C19_UnassignedRoleSkipped ==
    /\ Unassigned("extractor") =>
          /\ CallsOf("extractor") = {}
          /\ characters = IF pc \in {"append", "done"} THEN Ticked ELSE before.characters
          /\ savedChars = characters
    /\ Unassigned("character_intention") =>
          /\ CallsOf("character_intention") = {}
          /\ \A k \in DOMAIN calls : calls[k].round = 0
          /\ round_num = 0
          /\ \A i \in DOMAIN new_messages : new_messages[i].role # "intention"
    /\ Unassigned("lorebook_extractor") =>
          /\ CallsOf("lorebook_extractor") = {}
          /\ lorebook = before.lorebook
    /\ (\E r \in RoleNames \ {"narrator"} : Unassigned(r)) /\ pc = "failed" =>
          /\ calls # <<>>
          /\ ~Unassigned(calls[Len(calls)].role)
          /\ error \in {"HTTPException", "AttributeError"}
    /\ (\E r \in RoleNames \ {"narrator"} : Unassigned(r)) /\ ~Ended => ENABLED Next

\* a turn without an extractor connection returned after two rounds of
\* Gareth and Elena: intention and narrator calls, a lorebook call, no
\* extractor call, and Gareth's states are the ticked ones
C19_Witness ==
    /\ pc = "done"
    /\ Unassigned("extractor")
    /\ Cardinality(CallsOf("character_intention")) = 4
    /\ CallsOf("lorebook_extractor") # {}
    /\ Len(characters) = 2
    /\ characters # before.characters

\* a turn without an intention connection returned: the player's
\* resolution, the extractor call for the named Elena, the lorebook call
C19_NoRounds ==
    /\ pc = "done"
    /\ Unassigned("character_intention")
    /\ Len(characters) = 2
    /\ CallsOf("extractor") # {}
    /\ CallsOf("lorebook_extractor") # {}

\* a turn without a lorebook connection returned after its rounds
C19_NoLorebook ==
    /\ pc = "done"
    /\ Unassigned("lorebook_extractor")
    /\ CallsOf("character_intention") # {}

\* the name the claim resolves: the adventure's own connection field when
\* the role has one that is not empty, else the global mapping's name
StatedName(role) ==
    LET own == IF role \in DOMAIN story_roles THEN story_roles[role].connection ELSE ""
        mapped == IF role \in DOMAIN config.story_roles
                  THEN config.story_roles[role] ELSE ""
    IN  IF own # "" THEN own ELSE mapped

\* the places of the connections of a name in the configuration
PlacesNamed(name) ==
    {i \in DOMAIN config.llm_connections : config.llm_connections[i].name = name}

\* C20: _resolve_connection returns the connection named by the role's own
\* connection field when that is not empty, else the connection named by
\* the global mapping; it returns None when there is no name or no
\* connection of that name, and the first connection of the name when
\* there are several.
C20_LocalThenGlobalThenNone ==
    op.name = "resolve_connection" =>
       IF StatedName(op.role) = "" \/ PlacesNamed(StatedName(op.role)) = {}
       THEN op.result = <<>>
       ELSE /\ Len(op.result) = 1
            /\ \E i \in PlacesNamed(StatedName(op.role)) :
                  /\ op.result[1] = config.llm_connections[i]
                  /\ \A k \in PlacesNamed(StatedName(op.role)) : i <= k

\* the role's own field names "alt" and the global mapping "llm", both
\* exist: the connection "alt" is returned
C20_Witness ==
    /\ op.name = "resolve_connection"
    /\ op.role \in DOMAIN story_roles /\ op.role \in DOMAIN config.story_roles
    /\ story_roles[op.role].connection = "alt"
    /\ config.story_roles[op.role] = "llm"
    /\ Len(config.llm_connections) = 3
    /\ op.result = <<Connection("alt", "two")>>

\* the role's own field names a connection that does not exist: None is
\* returned although the global mapping names one that does
C20_Dangling ==
    /\ op.name = "resolve_connection"
    /\ op.role \in DOMAIN story_roles /\ op.role \in DOMAIN config.story_roles
    /\ story_roles[op.role].connection = "ghost"
    /\ config.story_roles[op.role] = "llm"
    /\ PlacesNamed("llm") # {}
    /\ op.result = <<>>

\* the adventure has no such role: the global mapping's connection, the
\* first of its name, is returned
C20_Global ==
    /\ op.name = "resolve_connection"
    /\ op.role \notin DOMAIN story_roles
    /\ Cardinality(PlacesNamed("llm")) = 2
    /\ op.result = <<Connection("llm", "one")>>

\* the text that was parsed
ParsedText == narration_so_far_parts[1]

\* a line of the shape Name(emotion): body whose name is a known name
\* ignoring case
KnownDialog(line) ==
    /\ line.shape = "dialog"
    /\ \E i \in DOMAIN known_names : Lower(known_names[i]) = Lower(line.name)

DialogLinesOf(text) == SelectSeq(text, KnownDialog)

\* the lines of a text that are not blank
InkOf(text) ==
    LET inked(line) == line.shape # "blank"
    IN  SelectSeq(text, inked)

\* two lines are the same but for the casing of a known dialog's name
SameButCasing(written, shown) ==
    IF KnownDialog(written)
    THEN /\ shown.shape = "dialog"
         /\ Lower(shown.name) = Lower(written.name)
         /\ \E i \in DOMAIN known_names : known_names[i] = shown.name
         /\ shown.emotion = written.emotion
         /\ shown.words = written.words
    ELSE shown = written

\* C21 as stated: the dialog lines of segments_to_text(parse_narrator_output(
\* text, names)) are the dialog lines of the text, verbatim and in order.
C21_DialogLinesVerbatim ==
    op.name = "parse_narrator_output" => DialogLinesOf(op.text) = DialogLinesOf(ParsedText)

\* C21 amended: the lines of the result that are not blank are those of the
\* text, in order; a dialog line of a known name is shown with the name as
\* the known names have it, its emotion and body as written; every other
\* line is as written.
C21_DialogLinesCanonical ==
    op.name = "parse_narrator_output" =>
       /\ Len(InkOf(op.text)) = Len(InkOf(ParsedText))
       /\ \A i \in DOMAIN InkOf(ParsedText) :
             SameButCasing(InkOf(ParsedText)[i], InkOf(op.text)[i])

\* "Aldric waves", a blank line, "ELENA(calm): hello" with Elena known: the
\* result is "Aldric waves" and "Elena(calm): hello"
C21_Witness ==
    /\ op.name = "parse_narrator_output"
    /\ ParsedText = <<PlainLine(<<"Aldric", "waves">>), BlankLine,
                      DialogLine("ELENA", "calm", <<"hello">>)>>
    /\ op.text = <<PlainLine(<<"Aldric", "waves">>), DialogLine("Elena", "calm", <<"hello">>)>>

\* the dialog segments of the parse, in order
DialogSegments ==
    LET dialog(seg) == seg.type = "dialog"
    IN  SelectSeq(op.segments, dialog)

\* the lines of the narration segments of the parse, in order
NarrationLines ==
    ConcatLines([i \in DOMAIN op.segments |->
                    IF op.segments[i].type = "narration" THEN op.segments[i].text ELSE <<>>])

\* the known name that equals the name ignoring case, in the casing of the
\* name list (of its last entry when several differ in case only)
Casing(name) ==
    LET same == {i \in DOMAIN known_names : Lower(known_names[i]) = Lower(name)}
    IN  known_names[CHOOSE i \in same : \A k \in same : k <= i]

\* C22: the dialog segments of parse_narrator_output are, in order, the
\* lines of the shape Name(emotion): text whose name is a known name
\* ignoring case, each with the known name in its own casing, the emotion
\* and the text; every other line that is not blank, a dialog-shaped line
\* of an unknown name included, is a line of a narration segment; and no
\* two narration segments are adjacent.
C22_DialogIffKnownName ==
    op.name = "parse_narrator_output" =>
       /\ Len(DialogSegments) = Len(DialogLinesOf(ParsedText))
       /\ \A i \in DOMAIN DialogSegments :
             DialogSegments[i] =
                [type |-> "dialog",
                 character |-> Casing(DialogLinesOf(ParsedText)[i].name),
                 emotion |-> DialogLinesOf(ParsedText)[i].emotion,
                 text |-> DialogLinesOf(ParsedText)[i].words]
       /\ LET other(line) == line.shape # "blank" /\ ~KnownDialog(line)
          IN  InkOf(NarrationLines) = SelectSeq(ParsedText, other)
       /\ \A i \in 1..(Len(op.segments) - 1) :
             ~(op.segments[i].type = "narration" /\ op.segments[i + 1].type = "narration")

\* "Mira(angry): mine" and "Aldric waves" with Mira unknown are one
\* narration segment of two lines, "ELENA(calm): hello" a dialog of Elena
C22_Witness ==
    /\ op.name = "parse_narrator_output"
    /\ ParsedText = <<DialogLine("Mira", "angry", <<"mine">>),
                      PlainLine(<<"Aldric", "waves">>),
                      DialogLine("ELENA", "calm", <<"hello">>)>>
    /\ Len(op.segments) = 2
    /\ op.segments[1] = [type |-> "narration",
                         text |-> <<DialogLine("Mira", "angry", <<"mine">>),
                                    PlainLine(<<"Aldric", "waves">>)>>]
    /\ op.segments[2].type = "dialog" /\ op.segments[2].character = "Elena"

\* C23: a turn ticks when it has passed the lorebook phase and at no other
\* time; from then on every roster character and the active persona is the
\* tick of what it was when the tick began, the files hold them, and no
\* model call, hence no extractor application, is made after the tick;
\* before, nothing has ticked.
C23_TickedOnceAfterExtraction ==
    /\ pc \in {"append", "done"} <=> op.name = "tick"
    /\ op.name = "tick" =>
          /\ characters = [i \in DOMAIN op.characters |-> TickCharacter(op.characters[i])]
          /\ active_persona =
                [i \in DOMAIN op.active_persona |-> TickCharacter(op.active_persona[i])]
          /\ characters # <<>> => savedChars = characters
          /\ active_persona # <<>> =>
                \E i \in DOMAIN localPersonas : localPersonas[i] = active_persona[1]
          /\ calls = op.calls
    /\ op.name # "tick" => op.name = "turn"

\* a returned turn in which Gareth did not activate and was not named: no
\* call is about him, and his states are the tick of those he started with
C23_Witness ==
    /\ pc = "done"
    /\ Len(characters) = 1
    /\ \A k \in DOMAIN calls : calls[k].about # "Gareth"
    /\ \E k \in DOMAIN calls : calls[k].role = "lorebook_extractor"
    /\ active_persona # <<>>
    /\ characters[1] = TickCharacter(before.characters[1])
    /\ characters[1] # before.characters[1]

\* the calls of round r
CallsInRound(r) == {k \in DOMAIN calls : calls[k].round = r}

\* a character produced a resolution in round r: a narrator call of the
\* round returned
Resolved(r) ==
    \E k \in CallsInRound(r) :
        /\ calls[k].role = "narrator"
        /\ ~(pc = "failed" /\ error = "HTTPException" /\ k = Len(calls))

\* C24: a round in which no character activated, or for which there is no
\* intention connection, or in which no character produced a resolution, is
\* the last: no intention, narrator or extractor call of a later round is
\* made, whatever max_rounds is; and a round is entered only with a roster
\* and an intention connection.
C24_LoopEndsAtIdleRound ==
    /\ \A r \in 1..max_rounds :
          ~Resolved(r) => \A k \in DOMAIN calls :
                             calls[k].role # "lorebook_extractor" => calls[k].round <= r
    /\ (characters = <<>> \/ Unassigned("character_intention")) => RoundCalls = <<>>
    /\ round_num <= Cardinality({r \in 1..max_rounds : Resolved(r)})

\* a returned turn with max_rounds 2: Gareth made his intention in round 1,
\* the narrator has no template and resolved nothing, no second round ran
C24_Witness ==
    /\ pc = "done"
    /\ max_rounds = 2
    /\ \E k \in CallsInRound(1) : calls[k].role = "character_intention"
    /\ ~Resolved(1)
    /\ CallsInRound(2) = {}

\* a returned turn with max_rounds 2: Gareth acted in round 1, nobody
\* activated in round 2
C24_NobodyActive ==
    /\ pc = "done"
    /\ max_rounds = 2
    /\ Len(characters) = 1
    /\ Resolved(1)
    /\ round_num = 1
    /\ CallsInRound(2) = {}

\* the payload is a JSON object whose state_changes holds one valid update
\* and nothing else
OneValidUpdate ==
    /\ payload.wrap \in {"bare", "fenced"}
    /\ HasStateChanges(payload)
    /\ Len(payload.json.fields["state_changes"].items) = 1
    /\ ~Mismatched(LastItem)
    /\ "updates" \notin DOMAIN LastItem.fields

\* the value the update stores: its integer, at most the category's ceiling
StoredValue ==
    LET v == StatedInt(LastItem.fields["value"])
        category == LastItem.fields["category"].s
    IN  IF category = "core" /\ v > 30 THEN 30
        ELSE IF category = "persistent" /\ v > 20 THEN 20
        ELSE v

\* the places of the category's list, as it was, whose label is the
\* update's ignoring case
SameLabel(category) ==
    {i \in DOMAIN TargetWas[category] :
        Lower(TargetWas[category][i].label) = Lower(LastItem.fields["label"].s)}

\* C25: after one valid update {category, label, value} is applied, the
\* other categories are as they were; if the category held a state with the
\* label ignoring case, the list has the same length and labels and the
\* first such state has the update's value, every other state its old one;
\* otherwise the list is the old one with one state of the update's label
\* and value appended.
C25_OverwriteOrAppend ==
    (op.name \in {"character_extractor", "persona_extractor"} /\ OneValidUpdate) =>
       LET category == LastItem.fields["category"].s
           was == TargetWas[category]
           now == TargetNow[category]
       IN  /\ ~raised
           /\ \A other \in Range(Categories) \ {category} :
                 TargetNow[other] = TargetWas[other]
           /\ IF SameLabel(category) # {}
              THEN /\ Len(now) = Len(was)
                   /\ \A i \in DOMAIN was :
                         /\ now[i].label = was[i].label
                         /\ now[i].value =
                               IF /\ i \in SameLabel(category)
                                  /\ \A k \in SameLabel(category) : i <= k
                               THEN StoredValue ELSE was[i].value
              ELSE now = Append(was, [label |-> LastItem.fields["label"].s,
                                      value |-> StoredValue])

\* the update {temporal, "ANGRY", 3} met the state "Angry" of value 9: the
\* state is "Angry" of value 3 and the list is no longer
C25_Witness ==
    /\ op.name = "character_extractor"
    /\ OneValidUpdate
    /\ LastItem = Update(JStr("temporal"), JStr("ANGRY"), JNum(3))
    /\ TargetWas.temporal = <<[label |-> "alert", value |-> 5], [label |-> "Angry", value |-> 9]>>
    /\ TargetNow.temporal = <<[label |-> "alert", value |-> 5], [label |-> "Angry", value |-> 3]>>

\* the update {persistent, "brave", 25.9} met no such state: "brave" of
\* value 20 is appended
C25_Appended ==
    /\ op.name = "persona_extractor"
    /\ OneValidUpdate
    /\ LastItem.fields["label"] = JStr("brave")
    /\ TargetWas.persistent = <<>>
    /\ TargetNow.persistent = <<[label |-> "brave", value |-> 20]>>

\* a valid update: an object with one of the three categories, a non-empty
\* label and a numeric value
ValidUpdate(u) ==
    /\ u.j = "obj"
    /\ Get(u, "category", JNull) \in {JStr("core"), JStr("persistent"), JStr("temporal")}
    /\ Get(u, "label", JStr("")).j = "str"
    /\ Get(u, "label", JStr("")) # JStr("")
    /\ Get(u, "value", JNum(0)).j \in {"num", "bool", "float"}

\* the categories that the valid updates of one item of state_changes name
NamedBy(item) ==
    IF item.j # "obj" THEN {}
    ELSE IF "updates" \in DOMAIN item.fields
    THEN IF item.fields["updates"].j # "list" THEN {}
         ELSE {u.fields["category"].s :
                 u \in {x \in Range(item.fields["updates"].items) : ValidUpdate(x)}}
    ELSE IF ValidUpdate(item) THEN {item.fields["category"].s} ELSE {}

\* the categories named in the valid updates of the output
NamedCategories(text) ==
    IF ~HasStateChanges(text) THEN {}
    ELSE UNION {NamedBy(item) : item \in Range(text.json.fields["state_changes"].items)}

\* C26: after apply_character_extractor on one character, every other
\* character of the roster (in memory and in characters.json) and the persona
\* (in memory and in both persona lists) are as they were; of the character
\* only the states differ, and only in categories named in a valid update of
\* the output; every state that a category held is still in that category, at
\* its place and under its label (no state leaves a category).
C26_OnlyNamedCategoriesChange ==
    op.name = "character_extractor" =>
       /\ \A j \in DOMAIN characters :
             j # op.who => /\ characters[j] = before.characters[j]
                           /\ savedChars[j] = before.savedChars[j]
       /\ Len(characters) = Len(before.characters)
       /\ active_persona = before.active_persona
       /\ localPersonas = before.localPersonas
       /\ globalPersonas = before.globalPersonas
       /\ [characters[op.who] EXCEPT !.states = TargetWas] = before.characters[op.who]
       /\ \A category \in Range(Categories) :
             /\ category \notin NamedCategories(payload) =>
                    TargetNow[category] = TargetWas[category]
             /\ Len(TargetNow[category]) >= Len(TargetWas[category])
             /\ \A i \in DOMAIN TargetWas[category] :
                    TargetNow[category][i].label = TargetWas[category][i].label

\* Elena's output named temporal only: her temporal list changed, her core
\* list and Gareth did not
C26_Witness ==
    /\ op = [name |-> "character_extractor", who |-> 2]
    /\ NamedCategories(payload) = {"temporal"}
    /\ TargetNow.temporal # TargetWas.temporal
    /\ TargetNow.core = TargetWas.core
    /\ TargetWas.core # <<>>
    /\ characters[1] = before.characters[1]

\* an output that names two categories has changed both and not the third
C26_TwoCategories ==
    /\ op.name = "character_extractor"
    /\ Cardinality(NamedCategories(payload)) = 2
    /\ \A category \in Range(Categories) :
          category \in NamedCategories(payload) <=> TargetNow[category] # TargetWas[category]

\* the extractor calls of the turn so far that are about the name
ExtractorCallsAbout(name) ==
    {k \in DOMAIN calls : calls[k].role = "extractor" /\ calls[k].about = name}

\* the turn ended with an exception out of the applier of its last call,
\* which was about the name
ApplierRaisedAbout(name) ==
    /\ error = "AttributeError"
    /\ calls # <<>>
    /\ calls[Len(calls)] \in {Call("extractor", name, r) : r \in 0..MaxRounds}

\* C27 as stated: when run_pipeline has aborted with an error, characters.json,
\* the adventure's personas.json, lorebook.json and the message log are as
\* they were before the turn.
C27_AbortLeavesStoresUntouched ==
    pc = "failed" =>
       /\ savedChars = before.savedChars
       /\ localPersonas = before.localPersonas
       /\ lorebook = before.lorebook
       /\ messagesLog = before.messagesLog

\* C27, amended: when run_pipeline has aborted with an error, the message
\* log, lorebook.json and the global personas.json are as they were before
\* the turn and nothing has ticked; characters.json and the adventure's
\* personas.json are not rolled back: a character (the persona) about whom
\* no extractor call was made is stored as before the turn, and every other
\* one is stored as the turn holds it in memory, with the changes of the
\* extractor applications that returned, unless the error came out of the
\* applier of the last call, which was about that very one.
C27_AbortKeepsExtractorWrites ==
    pc = "failed" =>
       /\ messagesLog = before.messagesLog
       /\ lorebook = before.lorebook
       /\ globalPersonas = before.globalPersonas
       /\ op.name # "tick"
       /\ Len(savedChars) = Len(before.savedChars)
       /\ \A j \in DOMAIN savedChars :
             /\ ExtractorCallsAbout(characters[j].name) = {} =>
                    savedChars[j] = before.savedChars[j]
             /\ ~ApplierRaisedAbout(characters[j].name) =>
                    savedChars[j] = characters[j]
       /\ \A i \in DOMAIN active_persona :
             /\ ExtractorCallsAbout(active_persona[i].name) = {} =>
                    localPersonas = before.localPersonas
             /\ (localPersonas # before.localPersonas
                   /\ ~ApplierRaisedAbout(active_persona[i].name)) =>
                    \E n \in DOMAIN localPersonas : localPersonas[n] = active_persona[i]
       /\ active_persona = <<>> => localPersonas = before.localPersonas

\* the narrator's call failed in a round after an extractor application had
\* changed a character: characters.json holds the change
C27_Witness ==
    /\ NarratorCallFailed
    /\ calls[Len(calls)].round >= 1
    /\ savedChars # before.savedChars
    /\ savedChars = characters
    /\ \E j \in DOMAIN characters : ExtractorCallsAbout(characters[j].name) # {}

\* the same with the persona: the adventure's personas.json holds the copy
\* that the persona extractor wrote
C27_PersonaKept ==
    /\ NarratorCallFailed
    /\ active_persona # <<>>
    /\ localPersonas # before.localPersonas
    /\ \E n \in DOMAIN localPersonas : localPersonas[n] = active_persona[1]

\* C28: when the last operation on a character that started with no states
\* was a tick, every core state has a value of at most 30 and every
\* persistent state, the ones promoted in that tick included, a value of at
\* most 20.
C28_CeilingsHoldAfterTick ==
    op.name = "tick" =>
       \A i \in DOMAIN characters :
          /\ \A n \in DOMAIN characters[i].states.core :
                characters[i].states.core[n].value <= 30
          /\ \A n \in DOMAIN characters[i].states.persistent :
                characters[i].states.persistent[n].value <= 20

\* C29: whatever extractor applications and ticks a character that started
\* with no states has seen, no category holds two states whose labels are
\* equal ignoring case.
C29_LabelsUniqueInCategory ==
    \A i \in DOMAIN characters :
       \A category \in Range(Categories) :
          \A m, n \in DOMAIN characters[i].states[category] :
             Lower(characters[i].states[category][m].label)
                = Lower(characters[i].states[category][n].label) => m = n

\* the i-th character's name or a nickname occurs in the narration so far or
\* in the player's message
NamedSoFar(i) ==
    \/ Named(characters[i], narration_so_far)
    \/ Named(characters[i], player_message)

\* C30: every step of a turn leaves the parts of narration_so_far in place
\* and at most appends to them, leaves the player's message and the names
\* and nicknames of the roster as they are, and a character that the
\* narration so far or the player's message names stays named when the
\* narration grows; a round that runs has every
\* character named at its start among its active characters, and ends the
\* loop for want of active characters only if nobody is named.
C30_NamedStayActive ==
    [][ /\ IsPrefix(narration_so_far_parts, narration_so_far_parts')
        /\ player_message' = player_message
        /\ Len(characters') = Len(characters)
        /\ \A i \in DOMAIN characters :
              /\ characters'[i].name = characters[i].name
              /\ characters'[i].nicknames = characters[i].nicknames
        /\ narration_so_far_parts' # narration_so_far_parts =>
              \A i \in DOMAIN characters : NamedSoFar(i) => NamedSoFar(i)'
        /\ (pc = "round" /\ pc' = "intention") =>
              \A i \in DOMAIN characters :
                 NamedSoFar(i) => \E k \in DOMAIN active_chars' : active_chars'[k] = i
        /\ (RoundRuns /\ pc' = "lorebook") =>
              \A i \in DOMAIN characters : ~NamedSoFar(i)
      ]_vars

\* Elena, of chattiness 0 and not named by the player, was named by a
\* resolution of the first round only: she is active in the second round
C30_Witness ==
    /\ pc = "intention"
    /\ round_num = 1
    /\ Len(characters) = 2
    /\ characters[2].chattiness = 0
    /\ ~Named(characters[2], player_message)
    /\ narration_so_far_parts # <<>>
    /\ ~Named(characters[2], narration_so_far_parts[1])
    /\ Named(characters[2], narration_so_far)
    /\ round_narration_parts = <<>>
    /\ \E k \in DOMAIN active_chars : active_chars[k] = 2

====
